---- MODULE Spec2Model ----
(***************************************************************************)
(* Model of the SPI framing protocol of Nuertey-LDESeries-Mbed:            *)
(*   src/Protocol.h               command catalog, CRC engine, frame codec *)
(*   src/NuerteyLDESeriesDevice.h response validator                       *)
(*                                                                         *)
(* A frame (SPICommandFrame_t, std::array<unsigned char, 4>) is a sequence *)
(* of four bytes; frame.at(i) of the source is frame[i + 1] here.          *)
(***************************************************************************)
EXTENDS Integers, Sequences, FiniteSets, TLC

VARIABLES
    pc,                 \* position of the caller: "idle", "transfer", "validate", "done"
    T,                  \* payload type the validator is instantiated for
    commandFrame,       \* the commandFrame argument of ValidateSPIResponseFrame
    responseFrame,      \* the responseFrame argument of ValidateSPIResponseFrame
    sensorData,         \* the caller's register (T& sensorData), one per payload type
    startupIndication,  \* static bool startupIndication, one per instantiation
    result,             \* the std::error_code returned by the last validation
    frame,              \* argument of CalculateCRC (CRC engine specification)
    eightCRC,           \* <<>> before CalculateCRC has run, <<crc>> after
    device,             \* the NuerteyLDESeriesDevice instance the current call runs on
    constructed,        \* the instances constructed so far
    startupEvents,      \* per instantiation: times the start-up success message was printed
    now,                \* NucleoF767ZIClock_t::now(), in microseconds
    m_LastSPITransferTime,  \* per instance, in microseconds
    currentTime,        \* local of FullDuplexTransfer
    bytesWritten,       \* local of FullDuplexTransfer
    busExchanges,       \* calls of m_TheSPIBus.write since the caller's last request
    loopRemoved,        \* the build dropped the side-effect-free busy-wait loop
    fn,                 \* the function applied in a function specification ("" before)
    arg,                \* its argument besides frame and T
    ret,                \* <<>> before the function has run, <<value>> after
    m_InclinometerMode, \* per instance
    m_PoweredDownMode,  \* per instance
    operation,          \* the controller operation in progress ("" when none)
    before,             \* <<mode, powered-down>> of the instance when it began
    errorCode,          \* the validated error the controller has yet to act on
    caller,             \* per thread: position and locals in FullDuplexTransfer
    busMutex,           \* the thread inside m_TheSPIBus.write ("" when none)
    exchanging          \* the threads whose byte exchange is on the bus

vars == <<pc, T, commandFrame, responseFrame, sensorData, startupIndication,
          result, frame, eightCRC, device, constructed, startupEvents, now,
          m_LastSPITransferTime, currentTime, bytesWritten, busExchanges,
          loopRemoved, fn, arg, ret, m_InclinometerMode, m_PoweredDownMode,
          operation, before, errorCode, caller, busMutex, exchanging>>

\* State of the function specifications.
pureVars == <<fn, arg, ret>>

\* State of the mode controller.
controllerVars == <<m_InclinometerMode, m_PoweredDownMode, operation, before,
                    errorCode>>

\* State of the threads that share an instance.
threadVars == <<caller, busMutex, exchanging>>

\* State of the validator.
validatorVars == <<pc, T, commandFrame, responseFrame, sensorData,
                   startupIndication, result, device, constructed,
                   startupEvents>>

\* State of the transfer primitive.
busVars == <<now, m_LastSPITransferTime, currentTime, bytesWritten,
             busExchanges, loopRemoved>>

(***************************************************************************)
(* Bounds of the model.                                                    *)
(***************************************************************************)
\* Bytes 0 and 1 of the frames the CRC engine is exercised on.
ByteSamples == {\h00, \h01, \h18, \h1B, \h7F, \h80, \hB4, \hFF}

\* Byte 2 of those frames ranges over 0..MaxDataByte.
MaxDataByte == 7

\* Byte 3 (the checksum field) of those frames.
ChecksumSamples == {\h00, \hE5, \hFF}

\* Payloads (bytes 1 and 2) of the responses the validator is exercised on.
PayloadSamples == {<<\h00, \hC1>>, <<\h80, \h01>>}

\* Byte 0 of those responses: read/write bit, 5-bit address, 2-bit status.
\*   0x18..0x1B  read,  address 6 (STATUS),  status 0..3
\*   0x99, 0x9B  write, address 6,           status 1, 3
\*   0x41, 0x43  read,  address 16 (WHOAMI), status 1, 3
\*   0xB5, 0xB6, 0xB7  write, address 13 (CMD), status 1, 2, 3
\*   0x35        read,  address 13,          status 1
OpcodeSamples == {\h18, \h19, \h1A, \h1B, \h99, \h9B, \h41, \h43,
                  \hB5, \hB6, \hB7, \h35}

\* Instantiations of ValidateSPIResponseFrame<T> (SensorAttribute_t<int16_t>,
\* SensorAttribute_t<uint16_t>).
Types == {"int16_t", "uint16_t"}

\* Device instances that may be constructed.
MaxDevices == 2
Devices == 1..MaxDevices

\* Cap of the start-up message counter.
MaxEvents == 2

(***************************************************************************)
(* Bit operations on 8-bit unsigned values.                                *)
(***************************************************************************)
\* Bit w (a power of two) of a XOR b.
XorBit(a, b, w) == (((a \div w) + (b \div w)) % 2) * w

\* a ^ b on uint8_t values.
BitXor8(a, b) ==
    XorBit(a, b, 1) + XorBit(a, b, 2) + XorBit(a, b, 4) + XorBit(a, b, 8)
    + XorBit(a, b, 16) + XorBit(a, b, 32) + XorBit(a, b, 64) + XorBit(a, b, 128)

(***************************************************************************)
(* Command catalog (Protocol.h, Table 14).                                 *)
(***************************************************************************)
\* Mutant: a wake-up frame of its own (mode field 0x08) in place of the
\* bytes of CHANGE_TO_MODE_1.
WAKEUP_FROM_POWERDOWN_MODE_Own == <<\hB4, \h00, \h08, \hF7>>

\* constexpr SPICommandFrame_t WAKEUP_FROM_POWERDOWN_MODE
WAKEUP_FROM_POWERDOWN_MODE == <<\hB4, \h00, \h00, \h1F>>

CommandFrames ==
    [ READ_ACCELERATION_X_AXIS   |-> <<\h04, \h00, \h00, \hF7>>,
      READ_ACCELERATION_Y_AXIS   |-> <<\h08, \h00, \h00, \hFD>>,
      READ_ACCELERATION_Z_AXIS   |-> <<\h0C, \h00, \h00, \hFB>>,
      READ_SELF_TEST_OUTPUT      |-> <<\h10, \h00, \h00, \hE9>>,
      ENABLE_ANGLE_OUTPUTS       |-> <<\hB0, \h00, \h1F, \h6F>>,
      READ_ANGLE_X_AXIS          |-> <<\h24, \h00, \h00, \hC7>>,
      READ_ANGLE_Y_AXIS          |-> <<\h28, \h00, \h00, \hCD>>,
      READ_ANGLE_Z_AXIS          |-> <<\h2C, \h00, \h00, \hCB>>,
      READ_TEMPERATURE           |-> <<\h14, \h00, \h00, \hEF>>,
      READ_STATUS_SUMMARY        |-> <<\h18, \h00, \h00, \hE5>>,
      READ_ERROR_FLAG_1          |-> <<\h1C, \h00, \h00, \hE3>>,
      READ_ERROR_FLAG_2          |-> <<\h20, \h00, \h00, \hC1>>,
      READ_COMMAND               |-> <<\h34, \h00, \h00, \hDF>>,
      CHANGE_TO_MODE_1           |-> <<\hB4, \h00, \h00, \h1F>>,
      CHANGE_TO_MODE_2           |-> <<\hB4, \h00, \h01, \h02>>,
      CHANGE_TO_MODE_3           |-> <<\hB4, \h00, \h02, \h25>>,
      CHANGE_TO_MODE_4           |-> <<\hB4, \h00, \h03, \h38>>,
      SET_POWERDOWN_MODE         |-> <<\hB4, \h00, \h04, \h6B>>,
      WAKEUP_FROM_POWERDOWN_MODE |-> WAKEUP_FROM_POWERDOWN_MODE,
      SOFTWARE_RESET             |-> <<\hB4, \h00, \h20, \h98>>,
      READ_WHO_AM_I              |-> <<\h40, \h00, \h00, \h91>>,
      READ_SERIAL_1              |-> <<\h64, \h00, \h00, \hA7>>,
      READ_SERIAL_2              |-> <<\h68, \h00, \h00, \hAD>>,
      READ_CURRENT_BANK          |-> <<\h7C, \h00, \h00, \hB3>>,
      SWITCH_TO_BANK_0           |-> <<\hFC, \h00, \h00, \h73>>,
      SWITCH_TO_BANK_1           |-> <<\hFC, \h00, \h01, \h6E>> ]

CommandNames == DOMAIN CommandFrames

READ_STATUS_SUMMARY == CommandFrames.READ_STATUS_SUMMARY

(***************************************************************************)
(* CRC engine (Protocol.h).                                                *)
(***************************************************************************)
\* Mutant: the polynomial 0x1D mistyped as 0x1B.
CalculateCRCBit_Poly1B(BitValue, crc) ==
    LET Temp0   == (crc \div 128) * 128                  \* eightCRC & 0x80
        Temp    == IF BitValue = 1 THEN (Temp0 + 128) % 256 \* Temp ^= 0x80
                                   ELSE Temp0
        shifted == (crc * 2) % 256                        \* eightCRC <<= 1
    IN  IF Temp > 0 THEN BitXor8(shifted, \h1B) ELSE shifted

\* uint8_t CalculateCRC(uint8_t BitValue, uint8_t eightCRC)
CalculateCRCBit(BitValue, crc) ==
    LET Temp0   == (crc \div 128) * 128                  \* eightCRC & 0x80
        Temp    == IF BitValue = 1 THEN (Temp0 + 128) % 256 \* Temp ^= 0x80
                                   ELSE Temp0
        shifted == (crc * 2) % 256                        \* eightCRC <<= 1
    IN  IF Temp > 0 THEN BitXor8(shifted, \h1D) ELSE shifted

\* A uint32_t as the pair <<bits 31..16, bits 15..0>>.
FlatBit(flat, BitIndex) ==
    IF BitIndex >= 16 THEN (flat[1] \div (2 ^ (BitIndex - 16))) % 2
                      ELSE (flat[2] \div (2 ^ BitIndex)) % 2

\* for (BitIndex = 31; BitIndex > 7; BitIndex--)
\*     eightCRC = CalculateCRC(BitValue, eightCRC);
\* (the range test makes TLC evaluate the uint8_t register at every iteration)
RECURSIVE CRCLoop(_, _, _)
CRCLoop(flat, BitIndex, crc) ==
    IF BitIndex > 7
      THEN LET next == CalculateCRCBit(FlatBit(flat, BitIndex), crc)
           IN  IF next \in 0..255 THEN CRCLoop(flat, BitIndex - 1, next) ELSE next
      ELSE crc

\* Mutant: the plain CRC-8, seeded with 0x00 and not complemented.
CalculateCRCFlat_Plain(flat) == CRCLoop(flat, 31, \h00)

\* Mutant: the register seeded with 0x00 instead of 0xFF.
CalculateCRCFlat_Seed0(flat) == 255 - CRCLoop(flat, 31, \h00)

\* uint8_t CalculateCRC(uint32_t frame)
CalculateCRCFlat(flat) == 255 - CRCLoop(flat, 31, \hFF)

\* Mutant: frame.at(0) << 24 lost, as if shifted in 8-bit arithmetic.
CalculateCRC_LowBytes(f) ==
    CalculateCRCFlat(<<f[2], f[3] * 256 + f[4]>>)

\* uint8_t CalculateCRC(const SPICommandFrame_t& frame)
CalculateCRC(f) ==
    CalculateCRCFlat(<<f[1] * 256 + f[2], f[3] * 256 + f[4]>>)

(***************************************************************************)
(* The reference CRC-8 of the interface description: register seeded 0xFF, *)
(* the bits of bytes 0..2 most-significant-first, each XORed into the top  *)
(* bit, shift left, XOR 0x1D when the XOR was nonzero, then complemented.  *)
(* It is also the checksum the sensor stamps on its responses.             *)
(***************************************************************************)
RefStep(reg, byte, k) ==
    LET top     == reg \div 128
        bit     == (byte \div (2 ^ k)) % 2
        shifted == (reg * 2) % 256
    IN  IF top # bit THEN BitXor8(shifted, \h1D) ELSE shifted

RECURSIVE RefByte(_, _, _)
RefByte(reg, byte, k) ==
    IF k < 0 THEN reg ELSE RefByte(RefStep(reg, byte, k), byte, k - 1)

RefCRC8(b0, b1, b2) ==
    255 - RefByte(RefByte(RefByte(\hFF, b0, 7), b1, 7), b2, 7)

(***************************************************************************)
(* Frames the CRC engine is exercised on: the catalog and a product of     *)
(* sample bytes.                                                           *)
(***************************************************************************)
CatalogFrames == {CommandFrames[n] : n \in CommandNames}

\* The frames AssertValidSPICommandFrame compares its argument with.
AssertedNames ==
    {"READ_ACCELERATION_X_AXIS", "READ_ACCELERATION_Y_AXIS",
     "READ_ACCELERATION_Z_AXIS", "READ_SELF_TEST_OUTPUT",
     "ENABLE_ANGLE_OUTPUTS", "READ_ANGLE_X_AXIS", "READ_ANGLE_Y_AXIS",
     "READ_ANGLE_Z_AXIS", "READ_TEMPERATURE", "READ_STATUS_SUMMARY",
     "READ_ERROR_FLAG_1", "READ_ERROR_FLAG_2", "READ_COMMAND",
     "CHANGE_TO_MODE_1", "CHANGE_TO_MODE_2", "CHANGE_TO_MODE_3",
     "CHANGE_TO_MODE_4", "SET_POWERDOWN_MODE", "WAKEUP_FROM_POWERDOWN_MODE",
     "SOFTWARE_RESET", "READ_WHO_AM_I", "READ_SERIAL_1", "READ_SERIAL_2",
     "READ_CURRENT_BANK", "SWITCH_TO_BANK_0", "SWITCH_TO_BANK_1"}

\* Mutant: the comparison leaves the checksum byte out.
AssertValidSPICommandFrame_ChecksumIgnored(f) ==
    \E n \in AssertedNames :
        /\ CommandFrames[n][1] = f[1]
        /\ CommandFrames[n][2] = f[2]
        /\ CommandFrames[n][3] = f[3]

\* void AssertValidSPICommandFrame(const T& frame): TRUE when the frame
\* equals one of the named frames, FALSE when assert(false) is reached.  No
\* function of the source calls it.
AssertValidSPICommandFrame(f) == \E n \in AssertedNames : CommandFrames[n] = f

\* NUMBER_OF_SPI_COMMAND_FRAME_BYTES: cBuffer.size(), rBuffer.size()
FrameSize == 4

\* A value-initialised SPICommandFrame_t.
ZeroFrame == <<0, 0, 0, 0>>

\* What a bus stuck high delivers.
OnesFrame == <<\hFF, \hFF, \hFF, \hFF>>

TestFrames ==
    CatalogFrames \cup
    {<<b0, b1, b2, b3>> : b0 \in ByteSamples, b1 \in ByteSamples,
                          b2 \in 0..MaxDataByte, b3 \in ChecksumSamples}

(***************************************************************************)
(* Responses the sensor may put on the bus: every sampled opcode byte and  *)
(* payload, stamped with the correct checksum or with a checksum that has  *)
(* one bit flipped.                                                        *)
(***************************************************************************)
ResponseFrames ==
    UNION {{<<b0, p[1], p[2], RefCRC8(b0, p[1], p[2])>>,
            <<b0, p[1], p[2], BitXor8(RefCRC8(b0, p[1], p[2]), \h01)>>}
           : b0 \in OpcodeSamples, p \in PayloadSamples}

\* Register values the sensor answers the controller's reads with: no bit,
\* or one bit of the status summary and of error flag 2.
ControllerPayloads == {<<\h00, \h00>>, <<\h00, \h01>>, <<\h00, \h08>>,
                       <<\h00, \h20>>, <<\h00, \h80>>, <<\h01, \h00>>}

\* Responses the controller meets: the echo of a status-summary read (0x19)
\* and of an error-flag-2 read (0x21) with each register value, the echo of a
\* command-register write (0xB5) with a correct and with a corrupted
\* checksum, and a command-register write answered with the error status
\* (0xB7).
ControllerResponseFrames ==
    {<<b0, p[1], p[2], RefCRC8(b0, p[1], p[2])>> :
         b0 \in {\h19, \h21}, p \in ControllerPayloads}
    \cup {<<\hB5, \h00, \h00, RefCRC8(\hB5, \h00, \h00)>>,
          <<\hB5, \h00, \h00, BitXor8(RefCRC8(\hB5, \h00, \h00), \h01)>>,
          <<\hB7, \h00, \h00, RefCRC8(\hB7, \h00, \h00)>>}

(***************************************************************************)
(* SensorStatus_t (NuerteyLDESeriesDevice.h).                              *)
(***************************************************************************)
SUCCESS == 0
ERROR_INVALID_COMMAND_FRAME == -1
ERROR_INCORRECT_NUMBER_OF_BYTES_WRITTEN == -2
ERROR_COMMUNICATION_FAILURE_BAD_CHECKSUM == -3
ERROR_INVALID_RESPONSE_FRAME == -4
ERROR_OPCODE_READ_WRITE_MISMATCH == -5
ERROR_RETURN_STATUS_STARTUP_IN_PROGRESS == -6
ERROR_RETURN_STATUS_SELF_TEST_RUNNING == -7
ERROR_RETURN_STATUS_ERROR_FLAGS_ACTIVE == -8
ERROR_STATUS_REGISTER_PIN_CONTINUITY == -11
ERROR_STATUS_REGISTER_MODE_CHANGED == -12
ERROR_STATUS_REGISTER_DEVICE_POWERED_DOWN == -13
ERROR_STATUS_REGISTER_NON_VOLATILE_MEMORY_ERRORED == -14
ERROR_STATUS_REGISTER_SAFE_VOLTAGE_LEVELS_EXCEEDED == -15
ERROR_STATUS_REGISTER_TEMPERATURE_SIGNAL_PATH_SATURATED == -16
ERROR_STATUS_REGISTER_ACCELERATION_SIGNAL_PATH_SATURATED == -17
ERROR_STATUS_REGISTER_CLOCK_ERRORED == -18
ERROR_STATUS_REGISTER_DIGITAL_BLOCK_ERRORED_TYPE_2 == -19
ERROR_STATUS_REGISTER_DIGITAL_BLOCK_ERRORED_TYPE_1 == -20

(***************************************************************************)
(* ReturnStatus_t: the two RS bits of a response.  The enumeration is      *)
(* declared in Utilities.h; the source quotes the error code as RS '11'.   *)
(***************************************************************************)
ReturnStatus_STARTUP_IN_PROGRESS == 0
ReturnStatus_NORMAL_OPERATION_NO_FLAGS == 1
ReturnStatus_SELF_TEST_RUNNING == 2
ReturnStatus_ERROR == 3

(***************************************************************************)
(* Frame codec (Protocol.h).                                               *)
(***************************************************************************)
\* Mutant: the payload is never reinterpreted as signed.
ConvertToT_Unsigned(t, v) == v

\* Conversion of the int (frame.at(1) << 8) | frame.at(2) to T.
ConvertToT(t, v) == IF t = "int16_t" /\ v >= 32768 THEN v - 65536 ELSE v

\* Mutant: the address is taken without the 0x1F mask.
Deserialize_AddressUnmasked(t, f) ==
    [operationCodeReadWrite |-> f[1] \div 128,
     operationCodeAddress   |-> f[1] \div 4,
     returnStatusMISO       |-> f[1] % 4,
     sensorData             |-> ConvertToT(t, f[2] * 256 + f[3]),
     checksum               |-> f[4]]

\* SPIMISOFrame_t<T> Deserialize(const SPICommandFrame_t& frame)
Deserialize(t, f) ==
    [operationCodeReadWrite |-> f[1] \div 128,
     operationCodeAddress   |-> (f[1] \div 4) % 32,
     returnStatusMISO       |-> f[1] % 4,
     sensorData             |-> ConvertToT(t, f[2] * 256 + f[3]),
     checksum               |-> f[4]]

(***************************************************************************)
(* Response validator (NuerteyLDESeriesDevice.h).                          *)
(***************************************************************************)
\* CalculateCRC(frame) for the frames the validator meets in this model,
\* computed once per frame.
CalculateCRCTable ==
    [f \in ResponseFrames \cup ControllerResponseFrames
            \cup {ZeroFrame, OnesFrame}
       |-> CalculateCRC(f)]

\* Mutant: the checksum comparison is dropped.
ValidateCRC_AlwaysOk(f) == SUCCESS

\* std::error_code ValidateCRC(const SPICommandFrame_t& frame)
ValidateCRC(f) ==
    LET receivedCRC == f[4]
        expectedCRC == IF f \in DOMAIN CalculateCRCTable
                         THEN CalculateCRCTable[f]
                         ELSE CalculateCRC(f)
    IN  IF receivedCRC # expectedCRC
          THEN ERROR_COMMUNICATION_FAILURE_BAD_CHECKSUM
          ELSE SUCCESS

\* Mutant: every status-summary read with normal status flips the flag.
StartupIndicationAfter_Toggle(flag, cf, rs) ==
    IF cf = READ_STATUS_SUMMARY /\ rs = ReturnStatus_NORMAL_OPERATION_NO_FLAGS
      THEN ~flag
      ELSE flag

\* The startupIndication block of the non-error branch.
StartupIndicationAfter(flag, cf, rs) ==
    IF cf = READ_STATUS_SUMMARY
      THEN IF rs = ReturnStatus_NORMAL_OPERATION_NO_FLAGS
             THEN (IF flag THEN FALSE ELSE flag)
             ELSE flag
      ELSE flag

\* The start-up success message of that block is printed.
StartupSuccessPrinted(flag, cf, rs) ==
    /\ cf = READ_STATUS_SUMMARY
    /\ rs = ReturnStatus_NORMAL_OPERATION_NO_FLAGS
    /\ flag

\* Mutant: the read/write bit is compared before the address.
MatchOpcode_ReadWriteFirst(cmd, rsp) ==
    IF rsp.operationCodeReadWrite = cmd.operationCodeReadWrite
      THEN IF rsp.operationCodeAddress = cmd.operationCodeAddress
             THEN SUCCESS
             ELSE ERROR_INVALID_RESPONSE_FRAME
      ELSE ERROR_OPCODE_READ_WRITE_MISMATCH

\* Mutant: the read/write bit is compared first and the address ignored.
MatchOpcode_AddressIgnored(cmd, rsp) ==
    IF rsp.operationCodeReadWrite = cmd.operationCodeReadWrite
      THEN SUCCESS
      ELSE ERROR_OPCODE_READ_WRITE_MISMATCH

\* Mutant: a read/write mismatch is not detected.
MatchOpcode_ReadWriteIgnored(cmd, rsp) ==
    IF rsp.operationCodeAddress = cmd.operationCodeAddress
      THEN SUCCESS
      ELSE ERROR_INVALID_RESPONSE_FRAME

\* The address and read/write comparison of the non-error branch.
MatchOpcode(cmd, rsp) ==
    IF rsp.operationCodeAddress = cmd.operationCodeAddress
      THEN IF rsp.operationCodeReadWrite = cmd.operationCodeReadWrite
             THEN SUCCESS
             ELSE ERROR_OPCODE_READ_WRITE_MISMATCH
      ELSE ERROR_INVALID_RESPONSE_FRAME

\* Mutant: the error status is let through.
ErrorStatusResult_Success(cf) == SUCCESS

\* Mutant: the error status is reported as an invalid command for every command.
ErrorStatusResult_NoStartupCase(cf) == ERROR_INVALID_COMMAND_FRAME

\* Mutant: the error status is reported as startup for every command.
ErrorStatusResult_AlwaysStartup(cf) == ERROR_RETURN_STATUS_STARTUP_IN_PROGRESS

\* The branch taken when the return status is ReturnStatus_t::ERROR.
ErrorStatusResult(cf) ==
    IF cf = READ_STATUS_SUMMARY
      THEN ERROR_RETURN_STATUS_STARTUP_IN_PROGRESS
      ELSE ERROR_INVALID_COMMAND_FRAME

\* Mutant: the payload is stored before the opcode is compared.
CommitSensorData_BeforeMatch(old, match, received) == received

\* sensorData = receivedSensorData, reached only when the opcode matched.
CommitSensorData(old, match, received) ==
    IF match = SUCCESS THEN received ELSE old

\* The body of ValidateSPIResponseFrame<t> as a function of its arguments
\* (data: the referenced register, flag: the instantiation's static flag).
ValidationOutcome(t, data, flag, cf, rf) ==
    LET crc == ValidateCRC(rf)
        cmd == Deserialize(t, cf)
        rsp == Deserialize(t, rf)
    IN  IF crc # SUCCESS
          THEN [result |-> crc, sensorData |-> data, startupIndication |-> flag,
                startupEvent |-> FALSE]
          ELSE IF rsp.returnStatusMISO # ReturnStatus_ERROR
            THEN [result            |-> MatchOpcode(cmd, rsp),
                  sensorData        |-> CommitSensorData(data, MatchOpcode(cmd, rsp),
                                                         rsp.sensorData),
                  startupIndication |-> StartupIndicationAfter(flag, cf,
                                                         rsp.returnStatusMISO),
                  startupEvent      |-> StartupSuccessPrinted(flag, cf,
                                                         rsp.returnStatusMISO)]
            ELSE [result            |-> ErrorStatusResult(cf),
                  sensorData        |-> data,
                  startupIndication |-> flag,
                  startupEvent      |-> FALSE]

(***************************************************************************)
(* Initial values of the state a specification leaves alone.               *)
(***************************************************************************)
\* OperationMode_t::MODE_1
MODE_1 == 1

InitPure ==
    /\ fn = ""
    /\ arg = 0
    /\ ret = <<>>

\* m_InclinometerMode(OperationMode_t::MODE_1), m_PoweredDownMode(false)
InitController ==
    /\ m_InclinometerMode = [d \in Devices |-> MODE_1]
    /\ m_PoweredDownMode = [d \in Devices |-> FALSE]
    /\ operation = ""
    /\ before = <<MODE_1, FALSE>>
    /\ errorCode = SUCCESS

InitThreads ==
    /\ caller = <<>>
    /\ busMutex = ""
    /\ exchanging = {}

(***************************************************************************)
(* Actions of the validator specification.                                 *)
(***************************************************************************)
\* NuerteyLDESeriesDevice::NuerteyLDESeriesDevice(...): one more instance.
Construct(d) ==
    /\ pc = "idle"
    /\ d \notin constructed
    /\ constructed' = constructed \cup {d}
    /\ m_LastSPITransferTime' = [m_LastSPITransferTime EXCEPT ![d] = now]
    /\ UNCHANGED <<pc, T, commandFrame, responseFrame, sensorData,
                   startupIndication, result, frame, eightCRC, device,
                   startupEvents, now, currentTime, bytesWritten, busExchanges,
                   loopRemoved>>
    /\ UNCHANGED <<pureVars, controllerVars, threadVars>>

\* The caller, on instance d, picks a catalog command and the register it
\* reads into.
IssueCommand(d, n, t) ==
    /\ pc = "idle"
    /\ d \in constructed
    /\ pc' = "transfer"
    /\ device' = d
    /\ T' = t
    /\ commandFrame' = CommandFrames[n]
    /\ responseFrame' = ZeroFrame
    /\ result' = SUCCESS
    /\ UNCHANGED <<sensorData, startupIndication, frame, eightCRC, constructed,
                   startupEvents>>
    /\ UNCHANGED busVars
    /\ UNCHANGED <<pureVars, threadVars>>

SelectCommand(d, n, t) ==
    /\ IssueCommand(d, n, t)
    /\ UNCHANGED controllerVars

\* Mutant: the reset operation writes the Mode 1 command.
SoftwareReset_Command_Mode1 == "CHANGE_TO_MODE_1"

\* WriteCommandOperation<SOFTWARE_RESET>() in SoftwareReset()
SoftwareReset_Command == "SOFTWARE_RESET"

\* void NuerteyLDESeriesDevice::SoftwareReset()
SoftwareReset(d, t) == SelectCommand(d, SoftwareReset_Command, t)

\* The exchange hands back the response frame.
ReceiveResponse(r) ==
    /\ pc = "transfer"
    /\ pc' = "validate"
    /\ responseFrame' = r
    /\ UNCHANGED <<T, commandFrame, sensorData, startupIndication, result,
                   frame, eightCRC, device, constructed, startupEvents>>
    /\ UNCHANGED busVars
    /\ UNCHANGED <<pureVars, controllerVars, threadVars>>

\* template <typename T> std::error_code ValidateSPIResponseFrame(...)
ValidateSPIResponseFrame ==
    /\ pc = "validate"
    /\ \E out \in {ValidationOutcome(T, sensorData[T], startupIndication[T],
                                     commandFrame, responseFrame)} :
           /\ result' = out.result
           /\ sensorData' = [sensorData EXCEPT ![T] = out.sensorData]
           /\ startupIndication' =
                  [startupIndication EXCEPT ![T] = out.startupIndication]
           /\ startupEvents' =
                  [startupEvents EXCEPT ![T] =
                      IF out.startupEvent /\ @ < MaxEvents THEN @ + 1 ELSE @]
    /\ pc' = "done"
    /\ UNCHANGED <<T, commandFrame, responseFrame, frame, eightCRC, device,
                   constructed>>
    /\ UNCHANGED busVars
    /\ UNCHANGED <<pureVars, controllerVars, threadVars>>

\* The caller is done with the outcome; its frames and error code go out of
\* scope.
Return ==
    /\ pc = "done"
    /\ pc' = "idle"
    /\ T' = "uint16_t"
    /\ commandFrame' = ZeroFrame
    /\ responseFrame' = ZeroFrame
    /\ result' = SUCCESS
    /\ device' = 1
    /\ bytesWritten' = 0
    /\ busExchanges' = 0
    /\ currentTime' = 0
    /\ UNCHANGED <<sensorData, startupIndication, frame, eightCRC, constructed,
                   startupEvents, now, m_LastSPITransferTime, loopRemoved>>
    /\ UNCHANGED <<pureVars, controllerVars, threadVars>>

Init ==
    /\ pc = "idle"
    /\ T = "uint16_t"
    /\ commandFrame = ZeroFrame
    /\ responseFrame = ZeroFrame
    /\ sensorData = [t \in Types |-> 0]
    /\ startupIndication = [t \in Types |-> TRUE]
    /\ result = SUCCESS
    /\ frame = ZeroFrame
    /\ eightCRC = <<>>
    /\ device = 1
    /\ constructed = {1}
    /\ startupEvents = [t \in Types |-> 0]
    /\ now = 0
    /\ m_LastSPITransferTime = [d \in Devices |-> 0]
    /\ currentTime = 0
    /\ bytesWritten = 0
    /\ busExchanges = 0
    /\ loopRemoved = FALSE
    /\ InitPure /\ InitController /\ InitThreads

Next ==
    \/ \E d \in Devices, n \in CommandNames, t \in Types : SelectCommand(d, n, t)
    \/ \E r \in ResponseFrames : ReceiveResponse(r)
    \/ ValidateSPIResponseFrame
    \/ Return

Spec == Init /\ [][Next]_vars

(***************************************************************************)
(* Session specification: several instances, software resets, and the      *)
(* reads that bear on start-up.                                            *)
(***************************************************************************)
\* Commands read in the session specification besides SOFTWARE_RESET.
SessionCommands == {"READ_STATUS_SUMMARY", "READ_WHO_AM_I"}

NextSession ==
    \/ \E d \in Devices : Construct(d)
    \/ \E d \in Devices, t \in Types : SoftwareReset(d, t)
    \/ \E d \in Devices, n \in SessionCommands, t \in Types :
           SelectCommand(d, n, t)
    \/ \E r \in ResponseFrames : ReceiveResponse(r)
    \/ ValidateSPIResponseFrame
    \/ Return

SpecSession == Init /\ [][NextSession]_vars

(***************************************************************************)
(* Controller specification: the mode, power-down and reset operations of  *)
(* one instance, each one write-and-validate cycle, and the reads whose    *)
(* validated register value can call for a reset.                          *)
(***************************************************************************)
\* OperationMode_t::MODE_1 .. MODE_4
Modes == MODE_1..4

\* The command each operation writes.  WakeupFromPowerDown and SoftwareReset
\* name theirs in the source; the others follow the catalog.
OperationCommand ==
    [ ChangeToMode1       |-> "CHANGE_TO_MODE_1",
      ChangeToMode2       |-> "CHANGE_TO_MODE_2",
      ChangeToMode3       |-> "CHANGE_TO_MODE_3",
      ChangeToMode4       |-> "CHANGE_TO_MODE_4",
      PowerDown           |-> "SET_POWERDOWN_MODE",
      WakeupFromPowerDown |-> "WAKEUP_FROM_POWERDOWN_MODE",
      SoftwareReset       |-> SoftwareReset_Command,
      SwitchToBank1       |-> "SWITCH_TO_BANK_1",
      ReadStatusSummary   |-> "READ_STATUS_SUMMARY",
      ReadErrorFlag2      |-> "READ_ERROR_FLAG_2" ]

Operations == DOMAIN OperationCommand

\* The mode an operation asks for (0 when it asks for none).
TargetMode(op) ==
    CASE op = "ChangeToMode1" -> 1
      [] op = "ChangeToMode2" -> 2
      [] op = "ChangeToMode3" -> 3
      [] op = "ChangeToMode4" -> 4
      [] OTHER -> 0

\* void NuerteyLDESeriesDevice::WakeupFromPowerDown(): the assignment
\* m_PoweredDownMode = false that precedes the write.  No other operation in
\* the source assigns before its write.
PoweredDownBeforeWrite(op, poweredDown) ==
    IF op = "WakeupFromPowerDown" THEN FALSE ELSE poweredDown

\* m_PoweredDownMode once the operation's exchange has been validated:
\* PowerDown records the power-down when the write matched;
\* WakeupFromPowerDown and SoftwareReset have no statement after their
\* write.
PoweredDownAfterValidation(op, res, poweredDown) ==
    IF op = "PowerDown" /\ res = SUCCESS THEN TRUE ELSE poweredDown

\* m_InclinometerMode once the operation's exchange has been validated: a
\* mode change records its mode when the write matched; SoftwareReset has no
\* statement after its write.
ModeAfterValidation(op, res, mode) ==
    IF TargetMode(op) # 0 /\ res = SUCCESS THEN TargetMode(op) ELSE mode

\* The status-summary bits in the order of the SensorStatus_t codes they are
\* reported as: bit k of the register is code -(11 + k).
RECURSIVE LowestBit(_, _)
LowestBit(v, k) == IF (v \div (2 ^ k)) % 2 = 1 THEN k ELSE LowestBit(v, k + 1)

ConvertStatusSummaryToErrorCode(status) ==
    IF status % 1024 = 0 THEN SUCCESS
    ELSE ERROR_STATUS_REGISTER_PIN_CONTINUITY - LowestBit(status % 1024, 0)

\* ErrorFlag2Reason_t: the reasons the controller resets for.
ErrorFlag2Reason_CLK == 1
ErrorFlag2Reason_MEMORY_CRC == 128

\* The status codes the failure policy marks reset-required: clock error,
\* digital-block error, non-volatile-memory error.
ResetRequiredCodes ==
    {ERROR_STATUS_REGISTER_NON_VOLATILE_MEMORY_ERRORED,
     ERROR_STATUS_REGISTER_CLOCK_ERRORED,
     ERROR_STATUS_REGISTER_DIGITAL_BLOCK_ERRORED_TYPE_2,
     ERROR_STATUS_REGISTER_DIGITAL_BLOCK_ERRORED_TYPE_1}

\* The error-flag-2 reasons the failure policy marks reset-required: clock
\* error, memory-CRC failure.
ResetRequiredReasons == {ErrorFlag2Reason_CLK, ErrorFlag2Reason_MEMORY_CRC}

\* errorCode holds a status code (negative) or an error-flag-2 register
\* value (positive) until the controller has acted on it.
ResetRequired(e) ==
    \/ e \in ResetRequiredCodes
    \/ e > 0 /\ \E reason \in ResetRequiredReasons : (e \div reason) % 2 = 1

\* The error a validated read leaves the controller to act on.
ValidatedError(op, res, data) ==
    CASE op = "ReadStatusSummary" /\ res = SUCCESS ->
             ConvertStatusSummaryToErrorCode(data)
      [] op = "ReadErrorFlag2" /\ res = SUCCESS -> data
      [] OTHER -> SUCCESS

\* An operation begins: the assignments before its write, then
\* WriteCommandOperation<V>() issues the command.
BeginOperation(d, op) ==
    /\ errorCode = SUCCESS
    /\ IssueCommand(d, OperationCommand[op], "uint16_t")
    /\ operation' = op
    /\ before' = <<m_InclinometerMode[d], m_PoweredDownMode[d]>>
    /\ m_PoweredDownMode' =
           [m_PoweredDownMode EXCEPT ![d] = PoweredDownBeforeWrite(op, @)]
    /\ UNCHANGED <<m_InclinometerMode, errorCode>>

\* void InitiateResetIfErrorCode(const std::error_code& errorCode)
InitiateResetIfErrorCode(d) ==
    /\ pc = "idle"
    /\ errorCode < 0
    /\ IF ResetRequired(errorCode)
         THEN /\ IssueCommand(d, OperationCommand["SoftwareReset"], "uint16_t")
              /\ operation' = "SoftwareReset"
              /\ before' = <<m_InclinometerMode[d], m_PoweredDownMode[d]>>
              /\ UNCHANGED <<m_InclinometerMode, m_PoweredDownMode, errorCode>>
         ELSE /\ errorCode' = SUCCESS
              /\ UNCHANGED <<validatorVars, frame, eightCRC, busVars, pureVars,
                             threadVars, m_InclinometerMode, m_PoweredDownMode,
                             operation, before>>

\* void InitiateResetIfErrorFlag2(const ErrorFlag2Reason_t& reason)
InitiateResetIfErrorFlag2(d) ==
    /\ pc = "idle"
    /\ errorCode > 0
    /\ IF ResetRequired(errorCode)
         THEN /\ IssueCommand(d, OperationCommand["SoftwareReset"], "uint16_t")
              /\ operation' = "SoftwareReset"
              /\ before' = <<m_InclinometerMode[d], m_PoweredDownMode[d]>>
              /\ UNCHANGED <<m_InclinometerMode, m_PoweredDownMode, errorCode>>
         ELSE /\ errorCode' = SUCCESS
              /\ UNCHANGED <<validatorVars, frame, eightCRC, busVars, pureVars,
                             threadVars, m_InclinometerMode, m_PoweredDownMode,
                             operation, before>>

\* The operation has its validation result: the tracked state and the error
\* to act on follow from it.
FinishOperation ==
    /\ pc = "done"
    /\ pc' = "finished"
    /\ m_InclinometerMode' =
           [m_InclinometerMode EXCEPT
              ![device] = ModeAfterValidation(operation, result, @)]
    /\ m_PoweredDownMode' =
           [m_PoweredDownMode EXCEPT
              ![device] = PoweredDownAfterValidation(operation, result, @)]
    /\ errorCode' = ValidatedError(operation, result, sensorData[T])
    /\ UNCHANGED <<T, commandFrame, responseFrame, sensorData,
                   startupIndication, result, device, constructed,
                   startupEvents, frame, eightCRC, operation, before>>
    /\ UNCHANGED <<busVars, pureVars, threadVars>>

\* The operation returns to its caller.
OperationReturn ==
    /\ pc = "finished"
    /\ pc' = "idle"
    /\ T' = "uint16_t"
    /\ commandFrame' = ZeroFrame
    /\ responseFrame' = ZeroFrame
    /\ result' = SUCCESS
    /\ device' = 1
    /\ operation' = ""
    /\ before' = <<MODE_1, FALSE>>
    /\ UNCHANGED <<sensorData, startupIndication, constructed, startupEvents,
                   frame, eightCRC, m_InclinometerMode, m_PoweredDownMode,
                   errorCode>>
    /\ UNCHANGED <<busVars, pureVars, threadVars>>

NextController ==
    \/ \E op \in Operations : BeginOperation(1, op)
    \/ InitiateResetIfErrorCode(1)
    \/ InitiateResetIfErrorFlag2(1)
    \/ \E r \in ControllerResponseFrames : ReceiveResponse(r)
    \/ ValidateSPIResponseFrame
    \/ FinishOperation
    \/ OperationReturn

SpecController == Init /\ [][NextController]_vars

(***************************************************************************)
(* Codec specification: Deserialize<T> and AssertValidSPICommandFrame      *)
(* applied to a frame.                                                     *)
(***************************************************************************)
\* Payload bytes around the sign boundary of a 16-bit value.
BoundaryBytes == {\h00, \h7F, \h80, \hFF}

\* Values a byte of a catalog frame is altered to.
AlteredBytes == {\h00, \h01, \h1F, \hFF}

\* Every leading byte with payload bytes around the sign boundary.
CodecFrames ==
    {<<b0, b1, b2, b3>> : b0 \in 0..255, b1 \in BoundaryBytes,
                          b2 \in BoundaryBytes, b3 \in ChecksumSamples}

\* f differs from g in exactly one byte.
SingleByteAltered(f, g) == Cardinality({i \in 1..4 : f[i] # g[i]}) = 1

\* Catalog frames with one byte altered.
AlteredCatalogFrames ==
    {[g EXCEPT ![i] = b] : g \in CatalogFrames, i \in 1..4, b \in AlteredBytes}
    \ CatalogFrames

DeserializeCall ==
    /\ ret = <<>>
    /\ fn' = "Deserialize"
    /\ ret' = <<Deserialize(T, frame)>>
    /\ UNCHANGED <<arg, validatorVars, frame, eightCRC, busVars,
                   controllerVars, threadVars>>

AssertValidSPICommandFrameCall ==
    /\ ret = <<>>
    /\ fn' = "AssertValidSPICommandFrame"
    /\ ret' = <<AssertValidSPICommandFrame(frame)>>
    /\ UNCHANGED <<arg, validatorVars, frame, eightCRC, busVars,
                   controllerVars, threadVars>>

InitCodec ==
    /\ pc = "idle"
    /\ T \in Types
    /\ commandFrame = ZeroFrame
    /\ responseFrame = ZeroFrame
    /\ sensorData = [t \in Types |-> 0]
    /\ startupIndication = [t \in Types |-> TRUE]
    /\ result = SUCCESS
    /\ frame \in CodecFrames \cup CatalogFrames \cup AlteredCatalogFrames
    /\ eightCRC = <<>>
    /\ device = 1
    /\ constructed = {1}
    /\ startupEvents = [t \in Types |-> 0]
    /\ now = 0
    /\ m_LastSPITransferTime = [d \in Devices |-> 0]
    /\ currentTime = 0
    /\ bytesWritten = 0
    /\ busExchanges = 0
    /\ loopRemoved = FALSE
    /\ InitPure /\ InitController /\ InitThreads

NextCodec ==
    \/ DeserializeCall
    \/ AssertValidSPICommandFrameCall

SpecCodec == InitCodec /\ [][NextCodec]_vars

(***************************************************************************)
(* Bit-flip specification: ValidateCRC applied to a frame the sensor       *)
(* stamped correctly, after at most one of its 32 bits was inverted on the *)
(* wire.                                                                   *)
(***************************************************************************)
\* Bytes 0..2 of the frames the sensor stamps: the catalog's and a product
\* of sample bytes.
StampedBytes == BoundaryBytes \cup {\h19, \hC1}
StampedPayloads ==
    {<<f[1], f[2], f[3]>> : f \in CatalogFrames}
        \cup {<<b0, b1, b2>> : b0 \in StampedBytes, b1 \in StampedBytes,
                               b2 \in StampedBytes}

\* The frame as the sensor sends it.
Stamped(p) == <<p[1], p[2], p[3], RefCRC8(p[1], p[2], p[3])>>

\* Bit positions of the 32-bit frame, 1 = least significant bit of byte 3,
\* 32 = most significant bit of byte 0; 0 stands for no flip.
FrameBits == FrameSize * 8
FlipByte(b, j) == IF (b \div (2 ^ j)) % 2 = 1 THEN b - 2 ^ j ELSE b + 2 ^ j
FlipBit(f, k) ==
    IF k = 0
      THEN f
      ELSE LET i == 4 - ((k - 1) \div 8)
               j == (k - 1) % 8
           IN  [f EXCEPT ![i] = FlipByte(f[i], j)]

ValidateCRCCall ==
    /\ ret = <<>>
    /\ fn' = "ValidateCRC"
    /\ ret' = <<ValidateCRC(frame)>>
    /\ UNCHANGED <<arg, validatorVars, frame, eightCRC, busVars,
                   controllerVars, threadVars>>

InitBitFlip ==
    /\ pc = "idle"
    /\ T = "uint16_t"
    /\ commandFrame = ZeroFrame
    /\ responseFrame = ZeroFrame
    /\ sensorData = [t \in Types |-> 0]
    /\ startupIndication = [t \in Types |-> TRUE]
    /\ result = SUCCESS
    /\ arg \in [base : StampedPayloads, bit : 0..FrameBits]
    /\ frame = FlipBit(Stamped(arg.base), arg.bit)
    /\ fn = ""
    /\ ret = <<>>
    /\ eightCRC = <<>>
    /\ device = 1
    /\ constructed = {1}
    /\ startupEvents = [t \in Types |-> 0]
    /\ now = 0
    /\ m_LastSPITransferTime = [d \in Devices |-> 0]
    /\ currentTime = 0
    /\ bytesWritten = 0
    /\ busExchanges = 0
    /\ loopRemoved = FALSE
    /\ InitController /\ InitThreads

NextBitFlip == ValidateCRCCall

SpecBitFlip == InitBitFlip /\ [][NextBitFlip]_vars

(***************************************************************************)
(* Sensor-data table (NuerteyLDESeriesDevice.h, g_TheSensorData): for each *)
(* register the bank command, the read command and the type of the cached  *)
(* value; the cached values themselves are the state sensorData.           *)
(***************************************************************************)
g_TheSensorData ==
    << [bank |-> "SWITCH_TO_BANK_1", command |-> "READ_ACCELERATION_X_AXIS",
        T |-> "int16_t"],
       [bank |-> "SWITCH_TO_BANK_1", command |-> "READ_ACCELERATION_Y_AXIS",
        T |-> "int16_t"],
       [bank |-> "SWITCH_TO_BANK_1", command |-> "READ_ACCELERATION_Z_AXIS",
        T |-> "int16_t"],
       [bank |-> "SWITCH_TO_BANK_1", command |-> "READ_SELF_TEST_OUTPUT",
        T |-> "int16_t"],
       [bank |-> "SWITCH_TO_BANK_1", command |-> "READ_TEMPERATURE",
        T |-> "int16_t"],
       [bank |-> "SWITCH_TO_BANK_0", command |-> "READ_ANGLE_X_AXIS",
        T |-> "int16_t"],
       [bank |-> "SWITCH_TO_BANK_0", command |-> "READ_ANGLE_Y_AXIS",
        T |-> "int16_t"],
       [bank |-> "SWITCH_TO_BANK_0", command |-> "READ_ANGLE_Z_AXIS",
        T |-> "int16_t"],
       [bank |-> "SWITCH_TO_BANK_1", command |-> "READ_STATUS_SUMMARY",
        T |-> "uint16_t"],
       [bank |-> "SWITCH_TO_BANK_0", command |-> "READ_WHO_AM_I",
        T |-> "uint16_t"] >>

\* std::get<9>(g_TheSensorData), counted from 1.
WhoAmIItem == 9 + 1

(***************************************************************************)
(* Who-am-i specification: reads of the who-am-i and of the temperature    *)
(* register, and AssertWhoAmI between them.  sensorData["uint16_t"] is the *)
(* cached who-am-i value, sensorData["int16_t"] the cached temperature.    *)
(***************************************************************************)
\* constexpr uint8_t WHO_AM_I
WHO_AM_I == \hC1

\* Mutant: the cached value compared at its full width.
AssertWhoAmI_FullWidth(cached) == cached = WHO_AM_I

\* uint8_t retrievedValue = (std::get<2>(std::get<9>(g_TheSensorData)) & 0xFF);
\* the asserted condition is retrievedValue == WHO_AM_I.
AssertWhoAmI(cached) == (cached % 256) = WHO_AM_I

\* The items read in this specification: temperature and who-am-i.
WhoAmIItems == {5, WhoAmIItem}

\* Responses of the sensor to the two reads: the component id alone, with a
\* nonzero upper byte, in the upper byte only, with a wrong checksum, with
\* the error status, and a temperature.
WhoAmIResponses ==
    { Stamped(<<\h41, \h00, \hC1>>), Stamped(<<\h41, \h12, \hC1>>),
      Stamped(<<\h41, \hC1, \h00>>), <<\h41, \h00, \hC1, \h00>>,
      Stamped(<<\h43, \h00, \hC1>>), Stamped(<<\h15, \h00, \h05>>),
      ZeroFrame }

\* void ReadSensorData(auto& item): the item's read command is exchanged
\* and the response validated into the item's cached value.
ReadSensorData(d, i) ==
    SelectCommand(d, g_TheSensorData[i].command, g_TheSensorData[i].T)

\* void NuerteyLDESeriesDevice::AssertWhoAmI() const
AssertWhoAmICall ==
    /\ pc = "idle"
    /\ fn' = "AssertWhoAmI"
    /\ ret' = <<AssertWhoAmI(sensorData[g_TheSensorData[WhoAmIItem].T])>>
    /\ UNCHANGED <<arg, validatorVars, frame, eightCRC, busVars,
                   controllerVars, threadVars>>

NextWhoAmI ==
    \/ \E i \in WhoAmIItems : ReadSensorData(1, i)
    \/ \E r \in WhoAmIResponses : ReceiveResponse(r)
    \/ ValidateSPIResponseFrame
    \/ Return
    \/ AssertWhoAmICall

SpecWhoAmI == Init /\ [][NextWhoAmI]_vars

(***************************************************************************)
(* Taxonomy specification: an error-flag register value decoded into its   *)
(* reason.                                                                 *)
(***************************************************************************)
\* Register values 0..MaxErrorFlag are decoded, and a few with the top bit.
MaxErrorFlag == 31
ErrorFlagSamples == 0..MaxErrorFlag \cup {\h8000, \h8001, \hFFFF}

\* enum class ErrorFlag1Reason_t : uint16_t, the enumerator of each bit.
ErrorFlag1Reason_t ==
    << "MEM", "AFE_SAT_BIT_1", "AFE_SAT_BIT_2", "AFE_SAT_BIT_3",
       "AFE_SAT_BIT_4", "AFE_SAT_BIT_5", "AFE_SAT_BIT_6", "AFE_SAT_BIT_7",
       "AFE_SAT_BIT_8", "AFE_SAT_BIT_9", "AFE_SAT_BIT_10", "ADC_SAT",
       "RESERVED_1", "RESERVED_2", "RESERVED_3", "RESERVED_4" >>

\* enum class ErrorFlag2Reason_t : uint16_t, the enumerator of each bit.
ErrorFlag2Reason_t ==
    << "CLK", "TEMP_SAT", "APWR_2", "VREF", "DPWR", "APWR", "RESERVED_6",
       "MEMORY_CRC", "PD", "MODE_CHANGE", "RESERVED_10", "VDD", "AGND",
       "A_EXT_C", "D_EXT_C", "RESERVED_15" >>

\* The bits set in a 16-bit value.
SetBits(flags) == {k \in 0..15 : (flags \div (2 ^ k)) % 2 = 1}

\* The value a decoder declared to return one ErrorFlag1Reason_t (or
\* ErrorFlag2Reason_t) can hand back for a register value: the enumerator of
\* one of its set bits, or the register value itself cast to the enumeration.
ReasonValues(flags) ==
    IF flags = 0 THEN {0}
    ELSE {2 ^ k : k \in SetBits(flags)} \cup {flags}

\* std::string ToString(const ErrorFlag1Reason_t& key) and its ErrorFlag2
\* overload: gs_ErrorFlagNReasonMap.at(key), which throws for a key that is
\* not an enumerator.
ReasonToString(enumerators, key) ==
    CASE key = 0 -> "SUCCESS_NO_ERROR"
      [] Cardinality(SetBits(key)) = 1 ->
             enumerators[(CHOOSE k \in SetBits(key) : TRUE) + 1]
      [] OTHER -> "std::out_of_range"

\* ErrorFlag1Reason_t ConvertErrorFlag1ToReason(const uint16_t& errorFlag)
ConvertErrorFlag1ToReasonCall ==
    /\ ret = <<>>
    /\ fn' = "ConvertErrorFlag1ToReason"
    /\ \E reason \in ReasonValues(arg) :
           ret' = <<ReasonToString(ErrorFlag1Reason_t, reason)>>
    /\ UNCHANGED <<arg, validatorVars, frame, eightCRC, busVars,
                   controllerVars, threadVars>>

\* ErrorFlag2Reason_t ConvertErrorFlag2ToReason(const uint16_t& errorFlag)
ConvertErrorFlag2ToReasonCall ==
    /\ ret = <<>>
    /\ fn' = "ConvertErrorFlag2ToReason"
    /\ \E reason \in ReasonValues(arg) :
           ret' = <<ReasonToString(ErrorFlag2Reason_t, reason)>>
    /\ UNCHANGED <<arg, validatorVars, frame, eightCRC, busVars,
                   controllerVars, threadVars>>

InitTaxonomy ==
    /\ pc = "idle"
    /\ T = "uint16_t"
    /\ commandFrame = ZeroFrame
    /\ responseFrame = ZeroFrame
    /\ sensorData = [t \in Types |-> 0]
    /\ startupIndication = [t \in Types |-> TRUE]
    /\ result = SUCCESS
    /\ frame = ZeroFrame
    /\ eightCRC = <<>>
    /\ device = 1
    /\ constructed = {1}
    /\ startupEvents = [t \in Types |-> 0]
    /\ now = 0
    /\ m_LastSPITransferTime = [d \in Devices |-> 0]
    /\ currentTime = 0
    /\ bytesWritten = 0
    /\ busExchanges = 0
    /\ loopRemoved = FALSE
    /\ fn = ""
    /\ arg \in ErrorFlagSamples
    /\ ret = <<>>
    /\ InitController /\ InitThreads

NextTaxonomy ==
    \/ ConvertErrorFlag1ToReasonCall
    \/ ConvertErrorFlag2ToReasonCall

SpecTaxonomy == InitTaxonomy /\ [][NextTaxonomy]_vars

(***************************************************************************)
(* Conversion specification: an instance of the class template for a       *)
(* part-number tag, its scaling factor and its pressure read.              *)
(***************************************************************************)
\* The part-number tags with a ScalingFactorMap specialisation.
SupportedTags ==
    {"LDE_S025_U_t", "LDE_S050_U_t", "LDE_S100_U_t", "LDE_S250_U_t",
     "LDE_S500_U_t", "LDE_S025_B_t", "LDE_S050_B_t", "LDE_S100_B_t",
     "LDE_S250_B_t", "LDE_S500_B_t"}

\* Types that are no part-number tag of the series.
OtherTags == {"LDE_S999_U_t", "int"}

\* Raw register values offered to the conversion.
RawSamples == {-600, 0, 600, 1200}

\* Values, in thousandths, that a call returning an indeterminate double can
\* produce.
IndeterminateSamples == {-1000, 0, 1000, 5000}

\* Mutant: the bidirectional parts, whose range spans twice as many pascals,
\* given half the counts per pascal.
ScalingFactorMap_BidirectionalHalved(S) ==
    CASE S = "LDE_S025_U_t" -> 1200
      [] S = "LDE_S050_U_t" -> 600
      [] S = "LDE_S100_U_t" -> 300
      [] S = "LDE_S250_U_t" -> 120
      [] S = "LDE_S500_U_t" -> 60
      [] S = "LDE_S025_B_t" -> 600
      [] S = "LDE_S050_B_t" -> 300
      [] S = "LDE_S100_B_t" -> 150
      [] S = "LDE_S250_B_t" -> 60
      [] S = "LDE_S500_B_t" -> 30
      [] OTHER -> 0

\* template <typename S> struct ScalingFactorMap and its specialisations.
ScalingFactorMap(S) ==
    CASE S \in {"LDE_S025_U_t", "LDE_S025_B_t"} -> 1200
      [] S \in {"LDE_S050_U_t", "LDE_S050_B_t"} -> 600
      [] S \in {"LDE_S100_U_t", "LDE_S100_B_t"} -> 300
      [] S \in {"LDE_S250_U_t", "LDE_S250_B_t"} -> 120
      [] S \in {"LDE_S500_U_t", "LDE_S500_B_t"} -> 60
      [] OTHER -> 0

\* constexpr double GetScalingFactor()
GetScalingFactor(S) == ScalingFactorMap(S)

\* Mutant: the class template accepts any type.
IsLDESeriesSensorType_Unconstrained(S) == TRUE

\* template<typename S> concept IsLDESeriesSensorType
IsLDESeriesSensorType(S) ==
    \/ S = "LDE_S025_U_t"
    \/ S = "LDE_S050_U_t"
    \/ S = "LDE_S100_U_t"
    \/ S = "LDE_S250_U_t"
    \/ S = "LDE_S500_U_t"
    \/ S = "LDE_S025_B_t"
    \/ S = "LDE_S050_B_t"
    \/ S = "LDE_S100_B_t"
    \/ S = "LDE_S250_B_t"
    \/ S = "LDE_S500_B_t"

\* template <IsLDESeriesSensorType S> class NuerteyLDESeriesDevice: an
\* instance for tag S exists only when S satisfies the concept; otherwise the
\* program that names it is rejected.
ConstructForTag ==
    /\ fn = ""
    /\ fn' = IF IsLDESeriesSensorType(arg.tag) THEN "constructed"
                                                ELSE "rejected"
    /\ UNCHANGED <<arg, ret, validatorVars, frame, eightCRC, busVars,
                   controllerVars, threadVars>>

\* GetScalingFactor() for the tag of a constructed instance.
GetScalingFactorCall ==
    /\ fn = "constructed"
    /\ fn' = "GetScalingFactor"
    /\ ret' = <<GetScalingFactor(arg.tag)>>
    /\ UNCHANGED <<arg, validatorVars, frame, eightCRC, busVars,
                   controllerVars, threadVars>>

\* double NuerteyLDESeriesDevice<S>::GetPressure() const: the body is empty,
\* control flows off the end of a function returning double and the caller
\* reads an indeterminate value.
GetPressure ==
    /\ fn = "constructed"
    /\ fn' = "GetPressure"
    /\ \E value \in IndeterminateSamples : ret' = <<value>>
    /\ UNCHANGED <<arg, validatorVars, frame, eightCRC, busVars,
                   controllerVars, threadVars>>

InitConversion ==
    /\ pc = "idle"
    /\ T = "uint16_t"
    /\ commandFrame = ZeroFrame
    /\ responseFrame = ZeroFrame
    /\ sensorData = [t \in Types |-> 0]
    /\ startupIndication = [t \in Types |-> TRUE]
    /\ result = SUCCESS
    /\ frame = ZeroFrame
    /\ eightCRC = <<>>
    /\ device = 1
    /\ constructed = {1}
    /\ startupEvents = [t \in Types |-> 0]
    /\ now = 0
    /\ m_LastSPITransferTime = [d \in Devices |-> 0]
    /\ currentTime = 0
    /\ bytesWritten = 0
    /\ busExchanges = 0
    /\ loopRemoved = FALSE
    /\ fn = ""
    /\ arg \in [tag : SupportedTags \cup OtherTags, raw : RawSamples]
    /\ ret = <<>>
    /\ InitController /\ InitThreads

NextConversion ==
    \/ ConstructForTag
    \/ GetScalingFactorCall
    \/ GetPressure

SpecConversion == InitConversion /\ [][NextConversion]_vars

(***************************************************************************)
(* CRC engine specification: CalculateCRC applied to each test frame.      *)
(***************************************************************************)
CalculateCRCCall ==
    /\ eightCRC = <<>>
    /\ eightCRC' = <<CalculateCRC(frame)>>
    /\ UNCHANGED <<frame, pc, T, commandFrame, responseFrame, sensorData,
                   startupIndication, result, device, constructed,
                   startupEvents>>
    /\ UNCHANGED busVars
    /\ UNCHANGED <<pureVars, controllerVars, threadVars>>

InitCRC ==
    /\ pc = "idle"
    /\ T = "uint16_t"
    /\ commandFrame = ZeroFrame
    /\ responseFrame = ZeroFrame
    /\ sensorData = [t \in Types |-> 0]
    /\ startupIndication = [t \in Types |-> TRUE]
    /\ result = SUCCESS
    /\ frame \in TestFrames
    /\ eightCRC = <<>>
    /\ device = 1
    /\ constructed = {1}
    /\ startupEvents = [t \in Types |-> 0]
    /\ now = 0
    /\ m_LastSPITransferTime = [d \in Devices |-> 0]
    /\ currentTime = 0
    /\ bytesWritten = 0
    /\ busExchanges = 0
    /\ loopRemoved = FALSE
    /\ InitPure /\ InitController /\ InitThreads

NextCRC == CalculateCRCCall

SpecCRC == InitCRC /\ [][NextCRC]_vars

(***************************************************************************)
(* Transfer primitive (NuerteyLDESeriesDevice.h, FullDuplexTransfer).      *)
(***************************************************************************)
\* static constexpr uint8_t MINIMUM_TIME_BETWEEN_SPI_CYCLES_MICROSECS
MINIMUM_TIME_BETWEEN_SPI_CYCLES_MICROSECS == 10

\* The clock is observed up to MaxTime microseconds.
MaxTime == 12

\* Byte counts m_TheSPIBus.write may report.
MaxBytesWritten == 5
BytesWrittenSamples == {0, 3, FrameSize, MaxBytesWritten}

\* Cap of the exchange counter.
MaxExchanges == 2

\* A frame that is not in the catalog.
NonCatalogFrame == <<\h00, \h00, \h00, \hF1>>

\* Command buffers FullDuplexTransfer is called with.
CommandBuffers ==
    {READ_STATUS_SUMMARY, CommandFrames.SWITCH_TO_BANK_0, NonCatalogFrame}

\* Contents of the caller's response buffer before the call.
StaleBuffers == {ZeroFrame, <<\h19, \h00, \hC1, \h42>>}

\* What the device puts on the bus during an exchange.
BusResponses == {<<\h19, \h00, \hC1, \h42>>, <<\h19, \h00, \hC1, \h43>>}


\* The condition of the busy-wait loop.
BusyWaitCondition(current, last) ==
    current - last < MINIMUM_TIME_BETWEEN_SPI_CYCLES_MICROSECS

\* Mutant: a count above the command length passes.
TransferResult_ShortOnly(written, size) ==
    IF written < size
      THEN ERROR_INCORRECT_NUMBER_OF_BYTES_WRITTEN
      ELSE SUCCESS

\* if (bytesWritten != cBuffer.size()) result = ...; return result;
TransferResult(written, size) ==
    IF written # size
      THEN ERROR_INCORRECT_NUMBER_OF_BYTES_WRITTEN
      ELSE SUCCESS

\* Mutant: a byte-count mismatch sends the call back to the exchange.
AfterExchange_Retry(written, size) ==
    IF written # size THEN "fdt_write" ELSE "fdt_returned"

\* Where the call goes once the exchange is stamped: it returns.
AfterExchange(written, size) == "fdt_returned"

\* The monotonic clock advances.
Tick ==
    /\ now < MaxTime
    /\ now' = now + 1
    /\ UNCHANGED <<pc, T, commandFrame, responseFrame, sensorData,
                   startupIndication, result, frame, eightCRC, device,
                   constructed, startupEvents, m_LastSPITransferTime,
                   currentTime, bytesWritten, busExchanges, loopRemoved>>
    /\ UNCHANGED <<pureVars, controllerVars, threadVars>>

\* Entry of FullDuplexTransfer(cBuffer, rBuffer) on instance d, up to the
\* read of the clock: rBuffer.fill(0); currentTime = now().
FullDuplexTransfer_Enter(d, cBuffer, rBuffer) ==
    /\ pc = "idle"
    /\ d \in constructed
    /\ rBuffer \in StaleBuffers
    /\ pc' = "fdt_wait"
    /\ device' = d
    /\ T' = "uint16_t"
    /\ commandFrame' = cBuffer
    /\ responseFrame' = ZeroFrame
    /\ result' = SUCCESS
    /\ currentTime' = now
    /\ busExchanges' = 0
    /\ UNCHANGED <<sensorData, startupIndication, frame, eightCRC, constructed,
                   startupEvents, now, m_LastSPITransferTime, bytesWritten,
                   loopRemoved>>
    /\ UNCHANGED <<pureVars, controllerVars, threadVars>>

\* The loop condition is false: the call goes on to the exchange.
BusyWait_Exit ==
    /\ pc = "fdt_wait"
    /\ ~BusyWaitCondition(currentTime, m_LastSPITransferTime[device])
    /\ pc' = "fdt_write"
    /\ UNCHANGED <<T, commandFrame, responseFrame, sensorData,
                   startupIndication, result, frame, eightCRC, device,
                   constructed, startupEvents>>
    /\ UNCHANGED busVars
    /\ UNCHANGED <<pureVars, controllerVars, threadVars>>

\* The loop condition is true and the loop is in the build: the empty body
\* runs and the condition is evaluated again on the same operands.
BusyWait_Body ==
    /\ ~loopRemoved
    /\ \/ /\ pc = "fdt_wait"
          /\ BusyWaitCondition(currentTime, m_LastSPITransferTime[device])
          /\ pc' = "fdt_spin"
       \/ /\ pc = "fdt_spin"
          /\ pc' = "fdt_wait"
    /\ UNCHANGED <<T, commandFrame, responseFrame, sensorData,
                   startupIndication, result, frame, eightCRC, device,
                   constructed, startupEvents>>
    /\ UNCHANGED busVars
    /\ UNCHANGED <<pureVars, controllerVars, threadVars>>

\* The loop condition is true and the build has dropped the loop, which has
\* no side effect and whose condition cannot change: the call goes on.
BusyWait_Removed ==
    /\ loopRemoved
    /\ pc = "fdt_wait"
    /\ BusyWaitCondition(currentTime, m_LastSPITransferTime[device])
    /\ pc' = "fdt_write"
    /\ UNCHANGED <<T, commandFrame, responseFrame, sensorData,
                   startupIndication, result, frame, eightCRC, device,
                   constructed, startupEvents>>
    /\ UNCHANGED busVars
    /\ UNCHANGED <<pureVars, controllerVars, threadVars>>

\* bytesWritten = m_TheSPIBus.write(cBuffer.data(), cBuffer.size(),
\*                                  rBuffer.data(), rBuffer.size())
FullDuplexTransfer_Write(r, n) ==
    /\ pc = "fdt_write"
    /\ busExchanges < MaxExchanges
    /\ pc' = "fdt_stamp"
    /\ responseFrame' = r
    /\ bytesWritten' = n
    /\ busExchanges' = busExchanges + 1
    /\ UNCHANGED <<T, commandFrame, sensorData, startupIndication, result,
                   frame, eightCRC, device, constructed, startupEvents, now,
                   m_LastSPITransferTime, currentTime, loopRemoved>>
    /\ UNCHANGED <<pureVars, controllerVars, threadVars>>

\* m_LastSPITransferTime = now(); the byte-count check; return result.
FullDuplexTransfer_Return ==
    /\ pc = "fdt_stamp"
    /\ m_LastSPITransferTime' = [m_LastSPITransferTime EXCEPT ![device] = now]
    /\ result' = TransferResult(bytesWritten, FrameSize)
    /\ pc' = AfterExchange(bytesWritten, FrameSize)
    /\ UNCHANGED <<T, commandFrame, responseFrame, sensorData,
                   startupIndication, frame, eightCRC, device, constructed,
                   startupEvents, now, currentTime, bytesWritten, busExchanges,
                   loopRemoved>>
    /\ UNCHANGED <<pureVars, controllerVars, threadVars>>

\* The caller of FullDuplexTransfer validates the response of a transfer
\* that succeeded and gives up on one that failed.
TransferReturned ==
    /\ pc = "fdt_returned"
    /\ pc' = IF result = SUCCESS THEN "validate" ELSE "done"
    /\ UNCHANGED <<T, commandFrame, responseFrame, sensorData,
                   startupIndication, result, frame, eightCRC, device,
                   constructed, startupEvents>>
    /\ UNCHANGED busVars
    /\ UNCHANGED <<pureVars, controllerVars, threadVars>>

InitTransfer ==
    /\ pc = "idle"
    /\ T = "uint16_t"
    /\ commandFrame = ZeroFrame
    /\ responseFrame = ZeroFrame
    /\ sensorData = [t \in Types |-> 0]
    /\ startupIndication = [t \in Types |-> TRUE]
    /\ result = SUCCESS
    /\ frame = ZeroFrame
    /\ eightCRC = <<>>
    /\ device = 1
    /\ constructed = {1}
    /\ startupEvents = [t \in Types |-> 0]
    /\ now = 0
    /\ m_LastSPITransferTime = [d \in Devices |-> 0]
    /\ currentTime = 0
    /\ bytesWritten = 0
    /\ busExchanges = 0
    /\ loopRemoved \in BOOLEAN
    /\ InitPure /\ InitController /\ InitThreads

\* The steps of a call of FullDuplexTransfer and of its caller.
TransferStep ==
    \/ BusyWait_Exit
    \/ BusyWait_Body
    \/ BusyWait_Removed
    \/ \E r \in BusResponses, n \in BytesWrittenSamples :
           FullDuplexTransfer_Write(r, n)
    \/ FullDuplexTransfer_Return
    \/ TransferReturned
    \/ ValidateSPIResponseFrame
    \/ Return

NextTransfer ==
    \/ Tick
    \/ \E d \in Devices, c \in CommandBuffers, r \in StaleBuffers :
           FullDuplexTransfer_Enter(d, c, r)
    \/ TransferStep

SpecTransfer == InitTransfer /\ [][NextTransfer]_vars

\* The clock keeps advancing and the single thread keeps running.
FairTransfer == SpecTransfer /\ WF_vars(Tick) /\ WF_vars(TransferStep)

(***************************************************************************)
(* Silent-bus specification: the transfer specification with a bus that    *)
(* may deliver nothing (the zero-filled buffer stays) or be stuck high.     *)
(***************************************************************************)
SilentBusResponses == BusResponses \cup {ZeroFrame, OnesFrame}

NextSilentBus ==
    \/ Tick
    \/ \E d \in Devices, c \in CommandBuffers, r \in StaleBuffers :
           FullDuplexTransfer_Enter(d, c, r)
    \/ BusyWait_Exit
    \/ BusyWait_Body
    \/ BusyWait_Removed
    \/ \E r \in SilentBusResponses, n \in BytesWrittenSamples :
           FullDuplexTransfer_Write(r, n)
    \/ FullDuplexTransfer_Return
    \/ TransferReturned
    \/ ValidateSPIResponseFrame
    \/ Return

SpecSilentBus == InitTransfer /\ [][NextSilentBus]_vars

(***************************************************************************)
(* Thread specification: two threads call FullDuplexTransfer on the same   *)
(* instance.  Each thread has its own currentTime and bytesWritten; the     *)
(* instance's m_LastSPITransferTime and m_TheSPIBus are shared.             *)
(***************************************************************************)
Callers == {"A", "B"}

\* The instance both threads use.
SharedDevice == 1

\* Values a racing, non-atomic store of the timestamp can leave behind
\* besides the value stored.
TornTimes == {0, MaxTime}

\* Mutant: m_TheSPIBus.write exchanges without taking the bus mutex.
BusAvailable_NoMutex(owner) == TRUE

\* "write already internally mutex locks and selects the SPI bus": the
\* exchange starts once no other thread holds the bus mutex.
BusAvailable(owner) == owner = ""

\* Another thread is reading or writing m_LastSPITransferTime.
RacesWith(c) ==
    \E o \in Callers \ {c} : caller[o].pc \in {"fdt_wait", "fdt_spin", "fdt_stamp"}

\* Entry of FullDuplexTransfer in thread c, up to the read of the clock.
Thread_Enter(c) ==
    /\ caller[c].pc = "idle"
    /\ caller' = [caller EXCEPT ![c] = [pc |-> "fdt_wait", currentTime |-> now,
                                        bytesWritten |-> 0]]
    /\ UNCHANGED <<validatorVars, frame, eightCRC, busVars, pureVars,
                   controllerVars, busMutex, exchanging>>

\* The busy-wait loop of thread c: left when its condition is false or the
\* build has dropped it, otherwise its empty body runs.
Thread_BusyWait(c) ==
    /\ caller[c].pc \in {"fdt_wait", "fdt_spin"}
    /\ LET waiting == BusyWaitCondition(caller[c].currentTime,
                                        m_LastSPITransferTime[SharedDevice])
           next == CASE caller[c].pc = "fdt_spin" -> "fdt_wait"
                     [] ~waiting \/ loopRemoved -> "fdt_write"
                     [] OTHER -> "fdt_spin"
       IN  caller' = [caller EXCEPT ![c].pc = next]
    /\ UNCHANGED <<validatorVars, frame, eightCRC, busVars, pureVars,
                   controllerVars, busMutex, exchanging>>

\* m_TheSPIBus.write in thread c takes the bus mutex, selects the sensor and
\* starts exchanging bytes.
Thread_WriteBegin(c) ==
    /\ caller[c].pc = "fdt_write"
    /\ BusAvailable(busMutex)
    /\ busMutex' = c
    /\ exchanging' = exchanging \cup {c}
    /\ caller' = [caller EXCEPT ![c].pc = "fdt_exchange"]
    /\ UNCHANGED <<validatorVars, frame, eightCRC, busVars, pureVars,
                   controllerVars>>

\* The exchange of thread c is over: m_TheSPIBus.write deselects the sensor,
\* releases the bus mutex and returns the byte count.
Thread_WriteEnd(c, n) ==
    /\ caller[c].pc = "fdt_exchange"
    /\ exchanging' = exchanging \ {c}
    /\ busMutex' = IF busMutex = c THEN "" ELSE busMutex
    /\ caller' = [caller EXCEPT ![c].pc = "fdt_stamp", ![c].bytesWritten = n]
    /\ UNCHANGED <<validatorVars, frame, eightCRC, busVars, pureVars,
                   controllerVars>>

\* m_LastSPITransferTime = now() in thread c, an unsynchronised store: when
\* another thread is reading or writing the member the stored value is any
\* of the values a torn store can leave.  Then the byte-count check and the
\* return.
Thread_Return(c) ==
    /\ caller[c].pc = "fdt_stamp"
    /\ \E stored \in (IF RacesWith(c) THEN {now} \cup TornTimes ELSE {now}) :
           m_LastSPITransferTime' =
               [m_LastSPITransferTime EXCEPT ![SharedDevice] = stored]
    /\ caller' = [caller EXCEPT ![c] = [pc |-> "idle", currentTime |-> 0,
                                        bytesWritten |-> 0]]
    /\ UNCHANGED <<validatorVars, frame, eightCRC, pureVars, controllerVars,
                   now, currentTime, bytesWritten, busExchanges, loopRemoved,
                   busMutex, exchanging>>

InitThreadsShared ==
    /\ pc = "idle"
    /\ T = "uint16_t"
    /\ commandFrame = ZeroFrame
    /\ responseFrame = ZeroFrame
    /\ sensorData = [t \in Types |-> 0]
    /\ startupIndication = [t \in Types |-> TRUE]
    /\ result = SUCCESS
    /\ frame = ZeroFrame
    /\ eightCRC = <<>>
    /\ device = 1
    /\ constructed = {1}
    /\ startupEvents = [t \in Types |-> 0]
    /\ now = 0
    /\ m_LastSPITransferTime = [d \in Devices |-> 0]
    /\ currentTime = 0
    /\ bytesWritten = 0
    /\ busExchanges = 0
    /\ loopRemoved \in BOOLEAN
    /\ InitPure /\ InitController
    /\ caller = [c \in Callers |-> [pc |-> "idle", currentTime |-> 0,
                                     bytesWritten |-> 0]]
    /\ busMutex = ""
    /\ exchanging = {}

NextThreads ==
    \/ Tick
    \/ \E c \in Callers : Thread_Enter(c)
    \/ \E c \in Callers : Thread_BusyWait(c)
    \/ \E c \in Callers : Thread_WriteBegin(c)
    \/ \E c \in Callers, n \in {3, FrameSize} : Thread_WriteEnd(c, n)
    \/ \E c \in Callers : Thread_Return(c)

SpecThreads == InitThreadsShared /\ [][NextThreads]_vars

(***************************************************************************)
(* Vocabulary of the properties: the wire layout of a frame                *)
(*   byte0 = RW(1) | ADDR(5) | RS(2), byte1..2 = DATA(16), byte3 = CRC8    *)
(* read off the bytes directly.                                            *)
(***************************************************************************)
WireReadWrite(f) == f[1] \div 128
WireAddress(f)   == (f[1] % 128) \div 4
WireStatus(f)    == f[1] % 4
WirePayload(f)   == f[2] * 256 + f[3]

\* The reference checksum of the frames a validation can be handed, computed
\* once per frame.
ReferenceChecksum ==
    [f \in ResponseFrames \cup {ZeroFrame} |-> RefCRC8(f[1], f[2], f[3])]

WireChecksumOk(f) == f[4] = ReferenceChecksum[f]

\* The 16-bit pattern held by a register of either payload type.
Bits16(v) == v % 65536

\* A validation has returned and its arguments are still in scope.
Validated == pc = "done"

(***************************************************************************)
(* C1: for every named command frame of the catalog, the CRC computed by   *)
(* CalculateCRC over bytes 0..2 equals the frame's byte 3.                 *)
(***************************************************************************)
C1_CatalogChecksums ==
    (eightCRC # <<>> /\ frame \in CatalogFrames) => eightCRC[1] = frame[4]

C1_Witness ==
    /\ eightCRC = <<\h98>>
    /\ frame = CommandFrames.SOFTWARE_RESET
    /\ Cardinality(CommandNames) = 26

(***************************************************************************)
(* C2: for every 4-byte frame, CalculateCRC equals the reference CRC-8     *)
(* (seed 0xFF, the 24 bits of bytes 0..2 most-significant-first,           *)
(* polynomial 0x1D, complemented); the result is an 8-bit value and does   *)
(* not depend on byte 3.                                                   *)
(***************************************************************************)
C2_ReferenceCRC ==
    eightCRC # <<>> =>
        /\ eightCRC[1] = RefCRC8(frame[1], frame[2], frame[3])
        /\ eightCRC[1] \in 0..255
        /\ \A b3 \in ChecksumSamples :
               CalculateCRC(<<frame[1], frame[2], frame[3], b3>>) = eightCRC[1]

C2_Witness ==
    /\ eightCRC # <<>>
    /\ frame = <<\hB4, \hFF, MaxDataByte, \h00>>
    /\ eightCRC[1] # frame[4]

(***************************************************************************)
(* C3: a response whose byte 3 differs from the CRC of its bytes 0..2      *)
(* makes ValidateSPIResponseFrame return the checksum-failure error,       *)
(* whatever its status, address and read/write bits are, and the call      *)
(* changes neither the caller's register nor the startup flag.             *)
(***************************************************************************)
C3_ChecksumFailure ==
    [][(pc = "validate" /\ ~WireChecksumOk(responseFrame)) =>
           /\ result' = ERROR_COMMUNICATION_FAILURE_BAD_CHECKSUM
           /\ sensorData' = sensorData
           /\ startupIndication' = startupIndication]_vars

\* A status-summary response with normal status and echoed opcode, rejected
\* only for its checksum: nothing is stored and startup is not confirmed.
C3_Witness ==
    /\ Validated
    /\ commandFrame = READ_STATUS_SUMMARY
    /\ responseFrame[1] = \h19
    /\ ~WireChecksumOk(responseFrame)
    /\ result = ERROR_COMMUNICATION_FAILURE_BAD_CHECKSUM
    /\ sensorData[T] = 0
    /\ WirePayload(responseFrame) # 0
    /\ startupIndication[T]

(***************************************************************************)
(* C4: a validation changes the register passed to it only when it         *)
(* returns success, and then the register holds exactly the 16-bit payload *)
(* of the response; a validation that returns an error leaves every        *)
(* register as it was.                                                     *)
(***************************************************************************)
C4_CommitOnlyOnSuccess ==
    [][pc = "validate" =>
           IF result' = SUCCESS
             THEN /\ Bits16(sensorData'[T]) = WirePayload(responseFrame)
                  /\ sensorData'[T] \in (IF T = "int16_t" THEN -32768..32767
                                                         ELSE 0..65535)
                  /\ \A t \in Types \ {T} : sensorData'[t] = sensorData[t]
             ELSE sensorData' = sensorData]_vars

\* A cached non-zero value survives a checksum-valid response that carries
\* another payload and fails validation.
C4_Witness ==
    /\ Validated
    /\ result # SUCCESS
    /\ WireChecksumOk(responseFrame)
    /\ sensorData[T] # 0
    /\ Bits16(sensorData[T]) # WirePayload(responseFrame)

(***************************************************************************)
(* C5 as stated: every checksum-valid response whose 5-bit address differs *)
(* from the command's makes the validator return the                       *)
(* invalid-response-frame error.                                           *)
(***************************************************************************)
C5_AsStated ==
    (/\ Validated
     /\ WireChecksumOk(responseFrame)
     /\ WireAddress(responseFrame) # WireAddress(commandFrame))
    => result = ERROR_INVALID_RESPONSE_FRAME

(***************************************************************************)
(* C5 amended: every checksum-valid response whose return status is not    *)
(* the error code and whose 5-bit address differs from the command's makes *)
(* the validator return the invalid-response-frame error.                  *)
(***************************************************************************)
C5_AddressMismatch ==
    (/\ Validated
     /\ WireChecksumOk(responseFrame)
     /\ WireStatus(responseFrame) # ReturnStatus_ERROR
     /\ WireAddress(responseFrame) # WireAddress(commandFrame))
    => result = ERROR_INVALID_RESPONSE_FRAME

\* Address and read/write bit both differ: the address decides.
C5_Witness ==
    /\ Validated
    /\ commandFrame = CommandFrames.READ_WHO_AM_I
    /\ responseFrame[1] = \h99
    /\ WireChecksumOk(responseFrame)
    /\ result = ERROR_INVALID_RESPONSE_FRAME

(***************************************************************************)
(* C6 as stated: every checksum-valid response whose address equals the    *)
(* command's and whose read/write bit differs from the command's makes the *)
(* validator return the opcode read/write mismatch error.                  *)
(***************************************************************************)
C6_AsStated ==
    (/\ Validated
     /\ WireChecksumOk(responseFrame)
     /\ WireAddress(responseFrame) = WireAddress(commandFrame)
     /\ WireReadWrite(responseFrame) # WireReadWrite(commandFrame))
    => result = ERROR_OPCODE_READ_WRITE_MISMATCH

(***************************************************************************)
(* C6 amended: every checksum-valid response whose return status is not    *)
(* the error code, whose address equals the command's and whose read/write *)
(* bit differs from the command's makes the validator return the opcode    *)
(* read/write mismatch error.                                              *)
(***************************************************************************)
C6_ReadWriteMismatch ==
    (/\ Validated
     /\ WireChecksumOk(responseFrame)
     /\ WireStatus(responseFrame) # ReturnStatus_ERROR
     /\ WireAddress(responseFrame) = WireAddress(commandFrame)
     /\ WireReadWrite(responseFrame) # WireReadWrite(commandFrame))
    => result = ERROR_OPCODE_READ_WRITE_MISMATCH

C6_Witness ==
    /\ Validated
    /\ commandFrame = CommandFrames.CHANGE_TO_MODE_2
    /\ responseFrame[1] = \h35
    /\ WireChecksumOk(responseFrame)
    /\ result = ERROR_OPCODE_READ_WRITE_MISMATCH

(***************************************************************************)
(* C7: when the command is READ_STATUS_SUMMARY and the checksum-valid      *)
(* response carries the error return status (RS bits 11), the validation   *)
(* - the first of a session included - returns StartupInProgress and       *)
(* stores no payload.                                                      *)
(***************************************************************************)
C7_StartupInProgress ==
    [][(/\ pc = "validate"
        /\ commandFrame = READ_STATUS_SUMMARY
        /\ WireChecksumOk(responseFrame)
        /\ WireStatus(responseFrame) = 3) =>
           /\ result' = ERROR_RETURN_STATUS_STARTUP_IN_PROGRESS
           /\ sensorData' = sensorData]_vars

\* The first validation of a session: no register written, no startup seen.
C7_Witness ==
    /\ Validated
    /\ commandFrame = READ_STATUS_SUMMARY
    /\ responseFrame[1] = \h1B
    /\ WireChecksumOk(responseFrame)
    /\ WirePayload(responseFrame) # 0
    /\ result = ERROR_RETURN_STATUS_STARTUP_IN_PROGRESS
    /\ \A t \in Types : sensorData[t] = 0 /\ startupIndication[t]

(***************************************************************************)
(* C8: on a status-summary read the error return status is reported as     *)
(* StartupInProgress only while startup has not been confirmed; once a     *)
(* status-summary read with normal status has been seen it is reported as  *)
(* ErrorFlagsActive.  (The error branch leaves the flag alone, so the flag *)
(* after the call is the flag the call saw.)                               *)
(***************************************************************************)
C8_ContextSensitiveErrorStatus ==
    (/\ Validated
     /\ commandFrame = READ_STATUS_SUMMARY
     /\ WireChecksumOk(responseFrame)
     /\ WireStatus(responseFrame) = 3)
    => result = (IF startupIndication[T]
                   THEN ERROR_RETURN_STATUS_STARTUP_IN_PROGRESS
                   ELSE ERROR_RETURN_STATUS_ERROR_FLAGS_ACTIVE)

(***************************************************************************)
(* C9: for every catalog command other than READ_STATUS_SUMMARY, a         *)
(* checksum-valid response carrying the error return status makes the      *)
(* validator return InvalidCommandFrame, whether or not the response's     *)
(* address and read/write bit echo the command.                            *)
(***************************************************************************)
C9_InvalidCommandFrame ==
    (/\ Validated
     /\ commandFrame \in CatalogFrames \ {READ_STATUS_SUMMARY}
     /\ WireChecksumOk(responseFrame)
     /\ WireStatus(responseFrame) = 3)
    => result = ERROR_INVALID_COMMAND_FRAME

\* The response echoes the command's address and read/write bit.
C9_Witness ==
    /\ Validated
    /\ commandFrame = CommandFrames.READ_WHO_AM_I
    /\ responseFrame[1] = \h43
    /\ WireChecksumOk(responseFrame)
    /\ result = ERROR_INVALID_COMMAND_FRAME

(***************************************************************************)
(* C10: a checksum-valid response whose return status is the               *)
(* self-test-running code makes the validator return the SelfTestRunning   *)
(* error kind.                                                             *)
(***************************************************************************)
C10_SelfTestRunning ==
    (/\ Validated
     /\ WireChecksumOk(responseFrame)
     /\ WireStatus(responseFrame) = ReturnStatus_SELF_TEST_RUNNING)
    => result = ERROR_RETURN_STATUS_SELF_TEST_RUNNING

(***************************************************************************)
(* Vocabulary of the session properties.                                   *)
(***************************************************************************)
\* The flag a validation on instance d, instantiated for t, reads and
\* writes: the function-local static of ValidateSPIResponseFrame<t>, which
\* every instance shares.
FlagSeenBy(d, t) == startupIndication[t]

\* A session starts in this step: an instance is constructed, or a
\* SoftwareReset is acknowledged.
SessionStarts ==
    \/ constructed' # constructed
    \/ /\ pc = "validate"
       /\ commandFrame = CommandFrames.SOFTWARE_RESET
       /\ result' = SUCCESS

(***************************************************************************)
(* C11: the startup flag goes from not-confirmed to confirmed only in a    *)
(* validation of READ_STATUS_SUMMARY that returns success; a validation    *)
(* that returns an error leaves the flag unchanged.                        *)
(***************************************************************************)
C11_ConfirmedOnlyOnSuccess ==
    [][pc = "validate" =>
           /\ \A t \in Types :
                  (startupIndication[t] /\ ~startupIndication'[t]) =>
                      (commandFrame = READ_STATUS_SUMMARY /\ result' = SUCCESS)
           /\ result' # SUCCESS => startupIndication' = startupIndication]_vars

C13_ResetOnSessionStart ==
    [][SessionStarts =>
           \A d \in constructed', t \in Types : FlagSeenBy(d, t)']_vars

(***************************************************************************)
(* C14: a validation on one instance leaves the flag seen by every other   *)
(* instance unchanged, and the flag does not depend on the payload type    *)
(* the validation is instantiated for.                                     *)
(***************************************************************************)
C14_FlagPerDeviceSession ==
    [][pc = "validate" =>
           /\ \A d \in constructed \ {device}, t \in Types :
                  FlagSeenBy(d, t)' = FlagSeenBy(d, t)
           /\ \A t1, t2 \in Types :
                  FlagSeenBy(device, t1)' = FlagSeenBy(device, t2)']_vars

(***************************************************************************)
(* C15: no payload of a command other than READ_STATUS_SUMMARY is          *)
(* committed on the strength of a normal return status before a            *)
(* status-summary read has confirmed start-up.                             *)
(***************************************************************************)
C15_NoCommitBeforeStartup ==
    [][(/\ pc = "validate"
        /\ commandFrame # READ_STATUS_SUMMARY
        /\ WireStatus(responseFrame) = ReturnStatus_NORMAL_OPERATION_NO_FLAGS
        /\ result' = SUCCESS)
       => \E t \in Types : ~startupIndication[t]]_vars

(***************************************************************************)
(* Vocabulary of the transfer properties.                                  *)
(***************************************************************************)
\* The bus exchange of the current call has been made.
Exchanged == pc \in {"fdt_stamp", "fdt_returned"}

\* The current call of FullDuplexTransfer has returned.
Returned == pc = "fdt_returned"

\* The exchange of the current call is made in this step.
ExchangeStarts == pc = "fdt_write" /\ pc' = "fdt_stamp"

(***************************************************************************)
(* C16: every frame that FullDuplexTransfer hands to the bus is one of the *)
(* catalog entries.                                                        *)
(***************************************************************************)
C16_OnlyCatalogFramesOnBus ==
    Exchanged => AssertValidSPICommandFrame(commandFrame)

(***************************************************************************)
(* C17: every bus exchange starts at least 10 microseconds after           *)
(* m_LastSPITransferTime, and m_LastSPITransferTime is refreshed after     *)
(* every exchange, one that ends in a byte-count error included.           *)
(***************************************************************************)
C17_MinimumInterval ==
    [][/\ ExchangeStarts =>
              now - m_LastSPITransferTime[device]
                  >= MINIMUM_TIME_BETWEEN_SPI_CYCLES_MICROSECS
       /\ (pc = "fdt_stamp" /\ pc' # pc) =>
              m_LastSPITransferTime'[device] = now]_vars

(***************************************************************************)
(* C18: under a clock that keeps advancing, a call of FullDuplexTransfer   *)
(* that is in its busy-wait when 10 microseconds have passed since the     *)
(* previous transfer eventually makes the exchange and returns.            *)
(***************************************************************************)
C18_TransferTerminates ==
    (/\ pc \in {"fdt_wait", "fdt_spin"}
     /\ now - m_LastSPITransferTime[device]
            >= MINIMUM_TIME_BETWEEN_SPI_CYCLES_MICROSECS)
    ~> Returned

(***************************************************************************)
(* C19: FullDuplexTransfer returns the incorrect-number-of-bytes error     *)
(* exactly when the byte count the bus reports differs from the 4-byte     *)
(* command length, and success otherwise; the response buffer has the      *)
(* length of the command.                                                  *)
(***************************************************************************)
C19_ByteCountError ==
    Returned =>
        /\ (result = ERROR_INCORRECT_NUMBER_OF_BYTES_WRITTEN)
               <=> (bytesWritten # Len(commandFrame))
        /\ (result = SUCCESS) <=> (bytesWritten = Len(commandFrame))
        /\ Len(commandFrame) = 4
        /\ Len(responseFrame) = Len(commandFrame)

\* The bus reports more bytes than the command holds.
C19_Witness ==
    /\ Returned
    /\ bytesWritten > Len(commandFrame)
    /\ result = ERROR_INCORRECT_NUMBER_OF_BYTES_WRITTEN
    /\ responseFrame \in BusResponses

(***************************************************************************)
(* C20: one call of FullDuplexTransfer makes exactly one bus exchange, the *)
(* validator makes none, and after a failed transfer or validation no      *)
(* further exchange is made until the caller calls again.                  *)
(***************************************************************************)
C20_NoRetry ==
    pc \in {"fdt_returned", "validate", "done"} => busExchanges = 1

\* A checksum failure has been reported and the bus was used once.
C20_Witness ==
    /\ Validated
    /\ result = ERROR_COMMUNICATION_FAILURE_BAD_CHECKSUM
    /\ busExchanges = 1
    /\ bytesWritten = FrameSize

(***************************************************************************)
(* Mode controller.                                                        *)
(***************************************************************************)
\* The tracked state of the instance the operation in progress works on.  The
\* class tracks the mode and the power-down; it has no member for the bank.
Tracked == <<m_InclinometerMode[device], m_PoweredDownMode[device]>>

\* The operation in progress has its validation result and has made its
\* assignments.
Finished == pc = "finished"

\* C21: for the bank, mode, power-down, wake-up and reset operations the
\* tracked state differs from the state before the operation only if the
\* exchange validated as matched; a wake-up whose write fails leaves the
\* tracked power-down unchanged.
C21_TrackedStateOnlyOnMatch ==
    (Finished /\ result # SUCCESS) => Tracked = before

\* C22: after SoftwareReset has completed the tracked state is the default,
\* Mode 1 and not powered down, whatever it was before; stated here for a
\* reset whose exchange validated as matched.
C22_DefaultsAfterReset ==
    (Finished /\ operation = "SoftwareReset" /\ result = SUCCESS)
        => Tracked = <<MODE_1, FALSE>>

Deserialized == fn = "Deserialize"

\* AssertValidSPICommandFrame has been applied to frame.
Asserted == fn = "AssertValidSPICommandFrame"

\* C24: for every leading byte 0..255, Deserialize yields a read/write bit in
\* 0..1, an address in 0..31 and a status in 0..3 that recompose the byte:
\* rw * 128 + address * 4 + status = byte.
C24_LeadingByteFields ==
    Deserialized =>
        LET m == ret[1]
        IN  /\ m.operationCodeReadWrite \in 0..1
            /\ m.operationCodeAddress \in 0..31
            /\ m.returnStatusMISO \in 0..3
            /\ m.operationCodeReadWrite * 128 + m.operationCodeAddress * 4
                   + m.returnStatusMISO = frame[1]

\* The leading byte 0xFF has been decoded into write, address 31, status 3.
C24_Witness ==
    /\ Deserialized
    /\ frame[1] = \hFF
    /\ ret[1].operationCodeReadWrite = 1
    /\ ret[1].operationCodeAddress = 31
    /\ ret[1].returnStatusMISO = 3

\* C25: the payload Deserialize yields is byte1 * 256 + byte2 for an unsigned
\* register, and that value minus 65536 for a signed register when byte1 is
\* 0x80 or more; byte 3 comes back unchanged as the checksum.
C25_Payload ==
    Deserialized =>
        LET m == ret[1]
            unsignedValue == frame[2] * 256 + frame[3]
        IN  /\ T = "uint16_t" => m.sensorData = unsignedValue
            /\ (T = "int16_t" /\ frame[2] < \h80)
                   => m.sensorData = unsignedValue
            /\ (T = "int16_t" /\ frame[2] >= \h80)
                   => m.sensorData = unsignedValue - 65536
            /\ m.checksum = frame[4]

\* The signed payload 0x80FF has been decoded as -32513.
C25_Witness ==
    /\ Deserialized
    /\ T = "int16_t"
    /\ frame[2] = \h80
    /\ frame[3] = \hFF
    /\ ret[1].sensorData = -32513

\* C30: AssertValidSPICommandFrame passes for each catalog frame and reaches
\* its failing assertion for every other frame, a catalog frame with a single
\* byte altered included.
C30_AssertExactlyCatalog ==
    Asserted =>
        /\ frame \in CatalogFrames => ret[1] = TRUE
        /\ frame \notin CatalogFrames => ret[1] = FALSE
        /\ (\E g \in CatalogFrames : SingleByteAltered(frame, g))
               => ret[1] = FALSE

\* SOFTWARE_RESET with its checksum byte altered has reached the failing
\* assertion.
C30_Witness ==
    /\ Asserted
    /\ SingleByteAltered(frame, CommandFrames.SOFTWARE_RESET)
    /\ frame[4] # CommandFrames.SOFTWARE_RESET[4]
    /\ ret[1] = FALSE

(***************************************************************************)
(* Error taxonomy.                                                         *)
(***************************************************************************)
\* The reasons of the set bits of a register value from bit k on, in
\* ascending bit order.
RECURSIVE ReasonsFrom(_, _, _)
ReasonsFrom(enumerators, flags, k) ==
    IF k > 15 THEN <<>>
    ELSE (IF k \in SetBits(flags) THEN <<enumerators[k + 1]>> ELSE <<>>)
             \o ReasonsFrom(enumerators, flags, k + 1)

\* The reasons the decoder has reported: the one it returned, none when it
\* returned SUCCESS_NO_ERROR.
ReportedReasons == IF ret[1] = "SUCCESS_NO_ERROR" THEN <<>> ELSE <<ret[1]>>

\* C26: decoding an error-flag register value reports the reason of every
\* set bit in ascending bit order, never only the first: 0x0000 gives no
\* reason, 0x0003 gives the reason of bit 0 followed by that of bit 1.
C26_EverySetBitReported ==
    /\ fn = "ConvertErrorFlag1ToReason"
           => ReportedReasons = ReasonsFrom(ErrorFlag1Reason_t, arg, 0)
    /\ fn = "ConvertErrorFlag2ToReason"
           => ReportedReasons = ReasonsFrom(ErrorFlag2Reason_t, arg, 0)

(***************************************************************************)
(* Unit converter.                                                         *)
(***************************************************************************)
\* C27: GetPressure returns the last validated raw value divided by the
\* scaling factor of the instance's part number (factor 600 and raw 600
\* give 1); the returned value is held in thousandths.
C27_PressureIsRawOverFactor ==
    fn = "GetPressure"
        => ret[1] * GetScalingFactor(arg.tag) = arg.raw * 1000

C29_ExchangesNeverOverlap ==
    /\ Cardinality(exchanging) <= 1
    /\ \A c \in exchanging : busMutex = c

\* Both threads are past the busy-wait; one is exchanging and the other is
\* held at m_TheSPIBus.write.
C29_Witness ==
    /\ caller["A"].pc = "fdt_exchange"
    /\ caller["B"].pc = "fdt_write"
    /\ exchanging = {"A"}

(***************************************************************************)
(* The validator as a whole.                                               *)
(***************************************************************************)
\* The response answers the command: same 5-bit address, same read/write
\* bit.
WireEcho ==
    /\ WireAddress(responseFrame) = WireAddress(commandFrame)
    /\ WireReadWrite(responseFrame) = WireReadWrite(commandFrame)

\* C31: ValidateSPIResponseFrame returns success if and only if the
\* response's checksum is correct, its return status is not the error code,
\* and its address and read/write bit equal the command's; its result is
\* always one of success, checksum failure, invalid response frame, opcode
\* read/write mismatch, startup in progress or invalid command frame.
C31_SuccessCharacterised ==
    Validated =>
        /\ result = SUCCESS
               <=> (/\ WireChecksumOk(responseFrame)
                    /\ WireStatus(responseFrame) # ReturnStatus_ERROR
                    /\ WireEcho)
        /\ result \in {SUCCESS,
                        ERROR_COMMUNICATION_FAILURE_BAD_CHECKSUM,
                        ERROR_INVALID_RESPONSE_FRAME,
                        ERROR_OPCODE_READ_WRITE_MISMATCH,
                        ERROR_RETURN_STATUS_STARTUP_IN_PROGRESS,
                        ERROR_INVALID_COMMAND_FRAME}

\* A command-register read echoed with a correct checksum and normal status
\* has been accepted for the signed register type.
C31_Witness ==
    /\ Validated
    /\ T = "int16_t"
    /\ commandFrame = CommandFrames.READ_COMMAND
    /\ responseFrame[1] = \h35
    /\ WireChecksumOk(responseFrame)
    /\ result = SUCCESS

\* C32: when a checksum-valid response without the error status mismatches
\* the command in both address and read/write bit, the result is invalid
\* response frame, never opcode read/write mismatch.
C32_AddressBeforeReadWrite ==
    (/\ Validated
     /\ WireChecksumOk(responseFrame)
     /\ WireStatus(responseFrame) # ReturnStatus_ERROR
     /\ WireAddress(responseFrame) # WireAddress(commandFrame)
     /\ WireReadWrite(responseFrame) # WireReadWrite(commandFrame))
    => result = ERROR_INVALID_RESPONSE_FRAME

\* A status-summary read (read, address 6) answered by the echo of a
\* command-register write (write, address 13).
C32_Witness ==
    /\ Validated
    /\ commandFrame = READ_STATUS_SUMMARY
    /\ responseFrame[1] = \hB5
    /\ WireChecksumOk(responseFrame)
    /\ result = ERROR_INVALID_RESPONSE_FRAME

(***************************************************************************)
(* Silent or stuck bus.                                                    *)
(***************************************************************************)
\* C33: an all-0x00 response (the zero-filled buffer of FullDuplexTransfer
\* when nothing is received) and an all-0xFF response both fail ValidateCRC:
\* the validation returns the checksum failure and commits no register
\* value.
C33_SilentBusRejected ==
    [][(/\ pc = "validate"
        /\ pc' = "done"
        /\ responseFrame \in {ZeroFrame, OnesFrame}) =>
           /\ ValidateCRC(responseFrame)
                  = ERROR_COMMUNICATION_FAILURE_BAD_CHECKSUM
           /\ result' = ERROR_COMMUNICATION_FAILURE_BAD_CHECKSUM
           /\ sensorData' = sensorData]_vars

\* A register committed by an earlier exchange has survived an exchange in
\* which the bus delivered nothing.
C33_Witness ==
    /\ Validated
    /\ responseFrame = ZeroFrame
    /\ busExchanges = 1
    /\ result = ERROR_COMMUNICATION_FAILURE_BAD_CHECKSUM
    /\ sensorData[T] = \hC1

(***************************************************************************)
(* Single-bit errors.                                                      *)
(***************************************************************************)
\* C34: a frame carrying the correct checksum passes ValidateCRC, and the
\* frame obtained from it by inverting any single one of its 32 bits is
\* rejected with the checksum failure.
C34_SingleBitFlipRejected ==
    fn = "ValidateCRC" =>
        /\ arg.bit = 0 => ret[1] = SUCCESS
        /\ arg.bit # 0 => /\ Cardinality({i \in 1..4 :
                                  frame[i] # Stamped(arg.base)[i]}) = 1
                          /\ ret[1] = ERROR_COMMUNICATION_FAILURE_BAD_CHECKSUM

\* READ_WHO_AM_I with the lowest bit of its checksum byte inverted.
C34_Witness ==
    /\ fn = "ValidateCRC"
    /\ arg = [base |-> <<\h40, \h00, \h00>>, bit |-> 1]
    /\ frame = <<\h40, \h00, \h00, \h90>>
    /\ ret = <<ERROR_COMMUNICATION_FAILURE_BAD_CHECKSUM>>

(***************************************************************************)
(* Names and frames of the catalog.                                        *)
(***************************************************************************)
\* C35: the 26 named catalog commands are 25 distinct frames:
\* WAKEUP_FROM_POWERDOWN_MODE and CHANGE_TO_MODE_1 are the same four bytes,
\* and any other two names differ in at least one of bytes 0..2.
C35_TwentyFiveDistinctFrames ==
    (fn = "AssertValidSPICommandFrame" /\ frame \in CatalogFrames) =>
        LET named   == {n \in CommandNames : CommandFrames[n] = frame}
            sharing == {n \in CommandNames :
                          \A i \in 1..3 : CommandFrames[n][i] = frame[i]}
        IN  /\ Cardinality(CommandNames) = 26
            /\ Cardinality(CatalogFrames) = 25
            /\ sharing = named
            /\ IF frame = CommandFrames.CHANGE_TO_MODE_1
                  THEN named = {"WAKEUP_FROM_POWERDOWN_MODE",
                                "CHANGE_TO_MODE_1"}
                  ELSE Cardinality(named) = 1

\* The frame that carries two names has been looked up.
C35_Witness ==
    /\ fn = "AssertValidSPICommandFrame"
    /\ frame = <<\hB4, \h00, \h00, \h1F>>
    /\ frame = CommandFrames.WAKEUP_FROM_POWERDOWN_MODE
    /\ ret = <<TRUE>>

(***************************************************************************)
(* Scaling factors.                                                        *)
(***************************************************************************)
\* C36: the scaling-factor lookup gives 1200, 600, 300, 120 and 60 counts
\* per pascal for the 25, 50, 100, 250 and 500 Pa parts, the same for the
\* unidirectional and the bidirectional variant, always within 60..1200, and
\* the factor of an instance is the same at every step of its life.
C36_ScalingFactors ==
    [][/\ fn' = "GetScalingFactor" =>
            /\ ret'[1] = [LDE_S025_U_t |-> 1200, LDE_S025_B_t |-> 1200,
                          LDE_S050_U_t |-> 600,  LDE_S050_B_t |-> 600,
                          LDE_S100_U_t |-> 300,  LDE_S100_B_t |-> 300,
                          LDE_S250_U_t |-> 120,  LDE_S250_B_t |-> 120,
                          LDE_S500_U_t |-> 60,   LDE_S500_B_t |-> 60][arg.tag]
            /\ ret'[1] \in 60..1200
       /\ arg'.tag = arg.tag
       /\ GetScalingFactor(arg'.tag) = GetScalingFactor(arg.tag)]_vars

\* The factor of a bidirectional 250 Pa part has been looked up.
C36_Witness ==
    /\ fn = "GetScalingFactor"
    /\ arg.tag = "LDE_S250_B_t"
    /\ ret = <<120>>

(***************************************************************************)
(* Component identification.                                               *)
(***************************************************************************)
\* C37: the condition asserted by AssertWhoAmI holds exactly when the low
\* 8 bits of the cached who-am-i value are 0xC1, whatever its upper 8 bits;
\* the cached value is 0 until a READ_WHO_AM_I response has been validated
\* successfully, so the condition fails before that.
C37_LowByteIsComponentId ==
    [][/\ (pc = "idle" /\ pc' = "idle") =>
            /\ fn' = "AssertWhoAmI"
            /\ ret'[1] = (\E upper \in 0..255 :
                             sensorData["uint16_t"] = upper * 256 + 193)
            /\ sensorData["uint16_t"] = 0 => ret'[1] = FALSE
       /\ sensorData'["uint16_t"] # sensorData["uint16_t"] =>
            /\ pc = "validate"
            /\ commandFrame = CommandFrames.READ_WHO_AM_I
            /\ result' = SUCCESS]_vars

\* The condition holds for a cached value whose upper byte is not zero.
C37_Witness ==
    /\ fn = "AssertWhoAmI"
    /\ pc = "idle"
    /\ sensorData["uint16_t"] = \h12C1
    /\ ret = <<TRUE>>

====
